---- MODULE Spec2Model ----
(***************************************************************************)
(* Invoice generation service (src/src/services/invoices.py).              *)
(*                                                                         *)
(* The specifications share the variables below.                           *)
(*   Spec     process_project_sheet on one project's HourMatrix slice:     *)
(*            calculate_rows_to_delete, populate_invoice_sheet,            *)
(*            delete_rows_from_sheet, apply_style_fixes, rebuild_formulas  *)
(*            (and a second rebuild_formulas on the rebuilt sheet).        *)
(*   SpecAgg  the entry pipeline of _process_invoices: filter_non_projects,*)
(*            filter_zero_hours, validate_project_ids, validate_codes,     *)
(*            aggregate_hours, group_by_project.                           *)
(*   SpecPipe the same pipeline followed by create_invoice_workbook, over  *)
(*            entries that reach every branch of the filters and of the    *)
(*            validators.                                                  *)
(*   SpecBook the pipeline of SpecPipe on projects with similar            *)
(*            identifiers.                                                 *)
(*   SpecName make_sheet_name on the two sheets of one project.            *)
(*   SpecRuns generate_invoices run twice, one run after the other, on one *)
(*            output directory; SpecRace the same with the steps of the    *)
(*            two runs interleaved.                                        *)
(*   SpecHttp one request of the HTTP endpoint, from the temporary input   *)
(*            file through read_timesheet_data and the pipeline to the     *)
(*            response.                                                    *)
(*                                                                         *)
(* Hours are floats in the code; the model uses naturals (whole hours), so *)
(* that sums are exact.  Strings that the code takes apart (project        *)
(* identifiers) are sequences of one-character strings; cell texts the     *)
(* code only builds and compares are TLA+ strings.                         *)
(***************************************************************************)
EXTENDS Integers, Sequences, FiniteSets, TLC

VARIABLES
    pc,                \* position in the pipeline
    project_id,        \* process_project_sheet: the project identifier
    invoice_date,      \* process_project_sheet: the date get_invoice_date formats
    hours_dict,        \* process_project_sheet: the project's HourMatrix slice
    rows_to_delete,    \* result of calculate_rows_to_delete
    ws,                \* the worksheet: a sequence of rows, each a tuple of 6 cells
    all_entries,       \* _process_invoices: entries as read
    filtered_entries,  \* _process_invoices: entries after the two filters
    excluded_count,    \* _process_invoices: count returned by filter_non_projects
    errors,            \* _process_invoices: messages of the failure raised, if any
    aggregated,        \* _process_invoices: aggregate_hours(filtered_entries)
    grouped,           \* _process_invoices: group_by_project(filtered_entries)
    wb,                \* create_invoice_workbook: the workbook's sheets, in order
    output,            \* generate_invoices: the sheets of the workbook saved
    table,             \* read_timesheet_data: the rows of the input table
    files,             \* the files that exist: output files and temporary inputs
    runs,              \* the state of each invocation of generate_invoices
    exception,         \* the class of the exception raised, "" when none was
    response           \* the HTTP response of the endpoint, once it is made

vars == <<pc, project_id, invoice_date, hours_dict, rows_to_delete, ws,
          all_entries, filtered_entries, excluded_count, errors, aggregated, grouped,
          wb, output, table, files, runs, exception, response>>

sheetVars == <<project_id, invoice_date, hours_dict, rows_to_delete, ws>>
aggVars == <<all_entries, filtered_entries, excluded_count, errors, aggregated, grouped,
            wb, output>>
envVars == <<table, files, runs, exception, response>>

-----------------------------------------------------------------------------
(* Bounds of the model.                                                    *)

\* largest number of (task, phase) keys in a HourMatrix slice given to Spec
MaxKeys == 2
\* largest hour value of a slice entry in Spec and of an entry in SpecAgg
MaxHours == 1
\* longest entry list given to SpecAgg and to SpecPipe
MaxEntries == 2
\* longest run of letters at the front of an identifier given to SpecName
MaxPad == 27

-----------------------------------------------------------------------------
(* Generic helpers.                                                        *)

Range(s) == {s[i] : i \in DOMAIN s}

RECURSIVE SumSeq(_)
SumSeq(s) == IF s = <<>> THEN 0 ELSE Head(s) + SumSeq(Tail(s))

\* Python's min() and max() over a non-empty list of row numbers
Min(s) == CHOOSE x \in Range(s) : \A y \in Range(s) : x <= y
Max(s) == CHOOSE x \in Range(s) : \A y \in Range(s) : x >= y

\* sum of d[k] over the keys k in S
RECURSIVE SumOver(_, _)
SumOver(d, S) ==
    IF S = {} THEN 0
    ELSE LET k == CHOOSE j \in S : TRUE
         IN d[k] + SumOver(d, S \ {k})

\* sum of the values of a dict
SumValues(d) == SumOver(d, DOMAIN d)

\* x put into a descending list behind the elements that are not smaller
InsertDesc(x, sorted) ==
    LET k == Cardinality({i \in DOMAIN sorted : sorted[i] >= x})
    IN SubSeq(sorted, 1, k) \o <<x>> \o SubSeq(sorted, k + 1, Len(sorted))

\* x put into an ascending list behind the elements that are not greater
InsertAsc(x, sorted) ==
    LET k == Cardinality({i \in DOMAIN sorted : sorted[i] <= x})
    IN SubSeq(sorted, 1, k) \o <<x>> \o SubSeq(sorted, k + 1, Len(sorted))

\* sorted(xs, reverse=True) on row numbers, by insertion of xs[lo..hi] into
\* the sorted list of what precedes them, first half then second half; equal
\* elements are all kept
SortedDesc(s) ==
    LET sort[lo \in Nat, hi \in Nat, sorted \in Seq(Nat)] ==
            IF lo > hi THEN sorted
            ELSE IF lo = hi THEN InsertDesc(s[lo], sorted)
            ELSE sort[(lo + hi) \div 2 + 1, hi, sort[lo, (lo + hi) \div 2, sorted]]
    IN sort[1, Len(s), <<>>]

\* sorted(xs) on row numbers, likewise
SortedAsc(s) ==
    LET sort[lo \in Nat, hi \in Nat, sorted \in Seq(Nat)] ==
            IF lo > hi THEN sorted
            ELSE IF lo = hi THEN InsertAsc(s[lo], sorted)
            ELSE sort[(lo + hi) \div 2 + 1, hi, sort[lo, (lo + hi) \div 2, sorted]]
    IN sort[1, Len(s), <<>>]

\* ",".join(parts), put together by halves
RECURSIVE Join(_)
Join(parts) ==
    IF parts = <<>> THEN ""
    ELSE IF Len(parts) = 1 THEN parts[1]
    ELSE LET mid == Len(parts) \div 2
         IN Join(SubSeq(parts, 1, mid)) \o "," \o Join(SubSeq(parts, mid + 1, Len(parts)))

\* a Python str held as a sequence of characters, as one text
RECURSIVE Text(_)
Text(chars) == IF chars = <<>> THEN "" ELSE Head(chars) \o Text(Tail(chars))

-----------------------------------------------------------------------------
(* Constants of invoices.py.                                               *)

\* TEMPLATES_DIR / "invoice-template.xlsx"
TEMPLATE_PATH == "invoice-template.xlsx"

\* the files when only the template exists, each with what it holds
TemplateOnly == [f \in {TEMPLATE_PATH} |-> 0]

\* no response made yet
NoResponse == [status_code |-> 0, code |-> "", details |-> <<>>]

PHASE_ORDER == <<"PD", "SD", "DD", "CD", "CA", "M">>
TASK_ORDER_STANDARD == <<"DP", "PM", "3-D", "D-D">>
TASK_ORDER_MEETINGS == <<"M">>

BILLABLE_TASK_CODES == {"DP", "PM", "3-D", "D-D", "M"}
BILLABLE_PHASE_CODES == {"PD", "SD", "DD", "CD", "CA", "M"}

PHASE_TO_DESCRIPTION ==
    [p \in BILLABLE_PHASE_CODES |->
        CASE p = "PD" -> "Pre-Design"
          [] p = "SD" -> "Schematic Design"
          [] p = "DD" -> "Design Development"
          [] p = "CD" -> "Construction Documents"
          [] p = "CA" -> "Construction Administration"
          [] p = "M"  -> "Meetings w/ Client or Contractor"]

TASK_TO_DESCRIPTION ==
    [t \in BILLABLE_TASK_CODES |->
        CASE t = "DP"  -> "Design Principal"
          [] t = "PM"  -> "Project Management"
          [] t = "3-D" -> "3D Model"
          [] t = "D-D" -> "Design and Documentation"
          [] t = "M"   -> "Meetings"]

\* TEMPLATE_STRUCTURE: header field rows and columns
project_name_row == 3
project_number_row == 4
invoice_date_row == 5
invoice_number_row == 6
value_col == 3
units_col == 3
rate_col == 4
cost_col == 5
total_col == 6

\* TEMPLATE_STRUCTURE["phases"]
TEMPLATE_PHASES ==
    [p \in BILLABLE_PHASE_CODES |->
        CASE p = "PD" -> [header |-> 10, tasks |-> <<11, 12, 13, 14>>, subtotal |-> 15]
          [] p = "SD" -> [header |-> 16, tasks |-> <<17, 18, 19, 20>>, subtotal |-> 21]
          [] p = "DD" -> [header |-> 22, tasks |-> <<23, 24, 25, 26>>, subtotal |-> 27]
          [] p = "CD" -> [header |-> 28, tasks |-> <<29, 30, 31, 32>>, subtotal |-> 33]
          [] p = "CA" -> [header |-> 34, tasks |-> <<35, 36, 37, 38>>, subtotal |-> 39]
          [] p = "M"  -> [header |-> 40, tasks |-> <<41>>, subtotal |-> 42]]

overall_subtotal_row == 43
reimbursable_header == 44
reimbursable_rows == <<45, 46, 47>>
reimbursable_subtotal == 48
total_amount_due_row == 50
footer_row == 52

\* labels rebuild_formulas looks for
REIMBURSABLE_COST_LABELS == <<"CCI Engineering", "Phipps Printing", "In house plotting(s.f.)">>

-----------------------------------------------------------------------------
(* Worksheet cells.  A cell holds nothing (None), a number or a text.      *)

Empty == [t |-> "e", n |-> 0, s |-> ""]
Num(n) == [t |-> "n", n |-> n, s |-> ""]
Str(s) == [t |-> "s", n |-> 0, s |-> s]

\* Python truthiness of a cell value: None, 0 and "" are falsy
Truthy(c) == (c.t = "n" /\ c.n # 0) \/ (c.t = "s" /\ c.s # "")

BlankRow == [c \in 1..6 |-> Empty]

\* the values a cell can hold, and the worksheets made of them
Cells == [t : {"e", "n", "s"}, n : Nat, s : STRING]
Sheets == Seq(Seq(Cells))

\* ws.cell(row=, column=).value
CellValue(sheet, row, col) == sheet[row][col]

\* ws.cell(row=, column=, value=)
SetCell(sheet, row, col, value) == [sheet EXCEPT ![row][col] = value]

\* one ws.cell(row=, column=, value=) of a loop of such calls
Write(row, col, value) == [row |-> row, col |-> col, value |-> value]

\* a list of ws.cell(row=, column=, value=) calls made in order; the loop over
\* writes[lo..hi] is the loop over its first half followed by the loop over
\* its second half
WriteCells(sheet0, writes) ==
    LET write[lo \in Nat, hi \in Nat, sheet \in Sheets] ==
            IF lo > hi THEN sheet
            ELSE IF lo = hi
            THEN SetCell(sheet, writes[lo].row, writes[lo].col, writes[lo].value)
            ELSE write[(lo + hi) \div 2 + 1, hi, write[lo, (lo + hi) \div 2, sheet]]
    IN write[1, Len(writes), sheet0]

\* ws.max_row
MaxRow(sheet) == Len(sheet)

\* ws.delete_rows(idx, 1): the rows below move up by one
DeleteRow(sheet, idx) ==
    IF idx \in 1..Len(sheet)
    THEN SubSeq(sheet, 1, idx - 1) \o SubSeq(sheet, idx + 1, Len(sheet))
    ELSE sheet

\* ws.insert_rows(idx, 1): the rows from idx on move down by one
InsertRow(sheet, idx) ==
    SubSeq(sheet, 1, idx - 1) \o <<BlankRow>> \o SubSeq(sheet, idx, Len(sheet))

-----------------------------------------------------------------------------
(* Formula texts written by rebuild_formulas.                              *)

\* f"=C{task_row}*D{task_row}"
CostFormula(r) == "=C" \o ToString(r) \o "*D" \o ToString(r)

\* f"=SUM(E{first}:E{last})"
RangeSumFormula(first, last) == "=SUM(E" \o ToString(first) \o ":E" \o ToString(last) \o ")"

\* [f"{col}{r}" for r in rows]
CellRefs(col, rows) == [i \in 1..Len(rows) |-> col \o ToString(rows[i])]

\* f"=SUM({','.join(parts)})"
ListSumFormula(parts) == "=SUM(" \o Join(parts) \o ")"

\* f"=F{overall_subtotal_row}+F{reimbursable_subtotal_row}"
TotalDueFormula(overall, reimb) == "=F" \o ToString(overall) \o "+F" \o ToString(reimb)

\* f"=F{overall_subtotal_row}"
TotalDueOnlyFormula(overall) == "=F" \o ToString(overall)

-----------------------------------------------------------------------------
(* The template sheet (templates/invoice-template.xlsx).  Its geometry is  *)
(* TEMPLATE_STRUCTURE; its labels are the ones rebuild_formulas scans for  *)
(* (phase subtotal rows have an empty description); its formula cells hold *)
(* the formulas of the pristine layout.                                    *)

TemplatePhaseOfRow(r) ==
    {p \in BILLABLE_PHASE_CODES :
        r \in {TEMPLATE_PHASES[p].header, TEMPLATE_PHASES[p].subtotal}
               \cup Range(TEMPLATE_PHASES[p].tasks)}

TemplateTaskRows ==
    SortedAsc(TEMPLATE_PHASES["PD"].tasks \o TEMPLATE_PHASES["SD"].tasks \o
              TEMPLATE_PHASES["DD"].tasks \o TEMPLATE_PHASES["CD"].tasks \o
              TEMPLATE_PHASES["CA"].tasks \o TEMPLATE_PHASES["M"].tasks)

TemplateSubtotalRows == [i \in 1..Len(PHASE_ORDER) |-> TEMPLATE_PHASES[PHASE_ORDER[i]].subtotal]

TemplateRow(r) ==
    IF TemplatePhaseOfRow(r) # {} THEN
        LET p == CHOOSE q \in TemplatePhaseOfRow(r) : TRUE
            info == TEMPLATE_PHASES[p]
            order == IF p = "M" THEN TASK_ORDER_MEETINGS ELSE TASK_ORDER_STANDARD
        IN  IF r = info.header THEN
                [BlankRow EXCEPT ![2] = Str(PHASE_TO_DESCRIPTION[p])]
            ELSE IF r = info.subtotal THEN
                [BlankRow EXCEPT ![total_col] =
                    Str(RangeSumFormula(Min(info.tasks), Max(info.tasks)))]
            ELSE
                LET i == CHOOSE j \in DOMAIN info.tasks : info.tasks[j] = r
                IN [BlankRow EXCEPT ![2] = Str(TASK_TO_DESCRIPTION[order[i]]),
                                    ![cost_col] = Str(CostFormula(r))]
    ELSE IF r = overall_subtotal_row THEN
        [BlankRow EXCEPT ![2] = Str("Subtotal"),
                         ![units_col] = Str(ListSumFormula(CellRefs("C", TemplateTaskRows))),
                         ![total_col] = Str(ListSumFormula(CellRefs("F", TemplateSubtotalRows)))]
    ELSE IF r = reimbursable_header THEN
        [BlankRow EXCEPT ![2] = Str("Reimbursable")]
    ELSE IF r \in Range(reimbursable_rows) THEN
        LET i == CHOOSE j \in DOMAIN reimbursable_rows : reimbursable_rows[j] = r
        IN [BlankRow EXCEPT ![2] = Str(REIMBURSABLE_COST_LABELS[i])]
    ELSE IF r = reimbursable_subtotal THEN
        [BlankRow EXCEPT ![2] = Str("Subtotal"),
                         ![total_col] = Str(RangeSumFormula(Min(reimbursable_rows),
                                                            Max(reimbursable_rows)))]
    ELSE IF r = total_amount_due_row THEN
        [BlankRow EXCEPT ![4] = Str("Total Amount Due"),
                         ![total_col] = Str(TotalDueFormula(overall_subtotal_row,
                                                            reimbursable_subtotal))]
    ELSE IF r = footer_row THEN
        [BlankRow EXCEPT ![1] = Str("CCI Design Inc.")]
    ELSE BlankRow

Template == [r \in 1..footer_row |-> TemplateRow(r)]

-----------------------------------------------------------------------------
(* Section pruner.                                                         *)

\* dict.get(key, 0)
Get(d, k) == IF k \in DOMAIN d THEN d[k] ELSE 0

\* calculate_phase_hours with the key unpacked the wrong way round: totals per
\* task code
calculate_phase_hours_by_task(h) ==
    [t \in {k[1] : k \in DOMAIN h} |-> SumOver(h, {j \in DOMAIN h : j[1] = t})]

\* calculate_phase_hours: total hours per phase code that occurs in the slice
calculate_phase_hours(h) ==
    [p \in {k[2] : k \in DOMAIN h} |-> SumOver(h, {j \in DOMAIN h : j[2] = p})]

\* the rows appended for a phase whose total is zero: header, tasks, subtotal
PhaseSectionRows(phase_info) ==
    <<phase_info.header>> \o phase_info.tasks \o <<phase_info.subtotal>>

\* TaskRowIsEmpty looking the hours up under (phase, task)
TaskRowIsEmptySwappedKey(h, task_code, phase_code) == Get(h, <<phase_code, task_code>>) = 0

\* the test that marks the task row of (task_code, phase_code)
TaskRowIsEmpty(h, task_code, phase_code) == Get(h, <<task_code, phase_code>>) = 0

\* the inner loop over TASK_ORDER_STANDARD, from index i on
RECURSIVE ZeroTaskRows(_, _, _)
ZeroTaskRows(h, phase_code, i) ==
    IF i > Len(TASK_ORDER_STANDARD) THEN <<>>
    ELSE (IF TaskRowIsEmpty(h, TASK_ORDER_STANDARD[i], phase_code)
          THEN <<TEMPLATE_PHASES[phase_code].tasks[i]>> ELSE <<>>)
         \o ZeroTaskRows(h, phase_code, i + 1)

\* one iteration of the loop over PHASE_ORDER
RowsOfPhase(h, phase_totals, phase_code) ==
    IF Get(phase_totals, phase_code) = 0
    THEN PhaseSectionRows(TEMPLATE_PHASES[phase_code])
    ELSE IF phase_code # "M" THEN ZeroTaskRows(h, phase_code, 1)
    ELSE <<>>

\* the loop over PHASE_ORDER, from index i on: rows_to_delete before sorting
RECURSIVE RowsAppended(_, _, _)
RowsAppended(h, phase_totals, i) ==
    IF i > Len(PHASE_ORDER) THEN <<>>
    ELSE RowsOfPhase(h, phase_totals, PHASE_ORDER[i]) \o RowsAppended(h, phase_totals, i + 1)

\* SortRowsToDelete without reverse=True
SortRowsToDeleteAscending(rows) == SortedAsc(rows)

\* sorted(rows_to_delete, reverse=True)
SortRowsToDelete(rows) == SortedDesc(rows)

calculate_rows_to_delete(h) ==
    SortRowsToDelete(RowsAppended(h, calculate_phase_hours(h), 1))

\* delete_rows_from_sheet: the rows are deleted one at a time, in list order;
\* the loop over rows[lo..hi] is the loop over its first half followed by the
\* loop over its second half
delete_rows_from_sheet(sheet0, rows) ==
    LET del[lo \in Nat, hi \in Nat, sheet \in Sheets] ==
            IF lo > hi THEN sheet
            ELSE IF lo = hi THEN DeleteRow(sheet, rows[lo])
            ELSE del[(lo + hi) \div 2 + 1, hi, del[lo, (lo + hi) \div 2, sheet]]
    IN del[1, Len(rows), sheet0]

-----------------------------------------------------------------------------
(* Populating the sheet.                                                   *)

\* str.strip() on a sequence of characters
RECURSIVE LStrip(_)
LStrip(chars) ==
    IF chars # <<>> /\ Head(chars) = " " THEN LStrip(Tail(chars)) ELSE chars

RECURSIVE RStrip(_)
RStrip(chars) ==
    IF chars # <<>> /\ chars[Len(chars)] = " "
    THEN RStrip(SubSeq(chars, 1, Len(chars) - 1)) ELSE chars

Strip(chars) == RStrip(LStrip(chars))

\* ":" in project_id
HasColon(chars) == \E i \in DOMAIN chars : chars[i] = ":"

\* index of the first ":" of an identifier that has one
FirstColon(chars) == CHOOSE i \in DOMAIN chars :
    chars[i] = ":" /\ \A j \in 1..(i - 1) : chars[j] # ":"

\* parse_project_id on an identifier with a colon: (name, number), both stripped
parse_project_id(chars) ==
    [name |-> Strip(SubSeq(chars, 1, FirstColon(chars) - 1)),
     number |-> Strip(SubSeq(chars, FirstColon(chars) + 1, Len(chars)))]

\* get_invoice_date: strftime("%B %d, %Y").replace(" 0", " "), i.e. the day
\* without its leading zero
get_invoice_date(d) == d.month \o " " \o ToString(d.day) \o ", " \o ToString(d.year)

\* the Meetings row filled from the key (M, M) alone
MeetingsHoursOwnKey(h) == Get(h, <<"M", "M">>)

\* sum(hours for (task, phase), hours in hours_dict.items() if phase == "M")
MeetingsHours(h) == SumOver(h, {j \in DOMAIN h : j[2] = "M"})

\* the inner loop of populate_invoice_sheet over TASK_ORDER_STANDARD, from
\* index i on
RECURSIVE PopulateTasks(_, _, _, _)
PopulateTasks(sheet, h, phase_code, i) ==
    IF i > Len(TASK_ORDER_STANDARD) THEN sheet
    ELSE PopulateTasks(
            SetCell(sheet, TEMPLATE_PHASES[phase_code].tasks[i], units_col,
                    Num(Get(h, <<TASK_ORDER_STANDARD[i], phase_code>>))),
            h, phase_code, i + 1)

\* the loop of populate_invoice_sheet over PHASE_ORDER, from index first on
PopulatePhases(sheet0, h, first) ==
    LET populate[i \in Nat, sheet \in Sheets] ==
            IF i > Len(PHASE_ORDER) THEN sheet
            ELSE IF PHASE_ORDER[i] = "M"
            THEN populate[i + 1, SetCell(sheet, TEMPLATE_PHASES["M"].tasks[1], units_col,
                                         Num(MeetingsHours(h)))]
            ELSE populate[i + 1, PopulateTasks(sheet, h, PHASE_ORDER[i], 1)]
    IN populate[first, sheet0]

\* the four header fields
PopulateHeader(sheet, project_name, project_number, date) ==
    LET s1 == SetCell(sheet, project_name_row, value_col, Str(Text(project_name)))
        s2 == SetCell(s1, project_number_row, value_col, Str(Text(project_number)))
        s3 == SetCell(s2, invoice_date_row, value_col, Str(get_invoice_date(date)))
    IN SetCell(s3, invoice_number_row, value_col, Str(Text(project_number) \o " INV ##"))

populate_invoice_sheet(sheet, project_name, project_number, h, date) ==
    PopulatePhases(PopulateHeader(sheet, project_name, project_number, date), h, 1)

\* apply_style_fixes: one blank row inserted at row 2 (gridlines, logo and the
\* footer row height do not change any cell)
apply_style_fixes(sheet) == InsertRow(sheet, 2)

-----------------------------------------------------------------------------
(* Formula rebuilder.  None for a row number is 0.                         *)

phase_headers == {PHASE_TO_DESCRIPTION[p] : p \in BILLABLE_PHASE_CODES}
task_descriptions == {TASK_TO_DESCRIPTION[t] : t \in BILLABLE_TASK_CODES}

\* str(cell.value) of a truthy cell (the labels carry no outer blanks to strip)
CellText(c) == IF c.t = "s" THEN c.s ELSE ToString(c.n)

RowNumbers(sheet) == [r \in 1..MaxRow(sheet) |-> r]

\* first pass: the rows whose description is a phase header, ascending
PhaseRows(sheet) ==
    LET IsHeader(r) == /\ Truthy(CellValue(sheet, r, 2))
                       /\ CellText(CellValue(sheet, r, 2)) \in phase_headers
    IN SelectSeq(RowNumbers(sheet), IsHeader)

\* first pass: the keys of task_rows_map
TaskRowsMap(sheet) ==
    {r \in 1..MaxRow(sheet) :
        /\ Truthy(CellValue(sheet, r, 2))
        /\ CellText(CellValue(sheet, r, 2)) \notin phase_headers
        /\ CellText(CellValue(sheet, r, 2)) \in task_descriptions}

\* "Total Amount Due" in str(cell_d)
IsTotalAmountDue(c) == Truthy(c) /\ CellText(c) = "Total Amount Due"

\* second pass, one row: st is the record of the five locals of the loop
ScanStep(sheet, row, st) ==
    LET cell_b == CellValue(sheet, row, 2)
        cell_d == CellValue(sheet, row, 4)
        b == CellText(cell_b)
        st1 == IF ~Truthy(cell_b) THEN st
               ELSE IF b = "Reimbursable" THEN [st EXCEPT !.in_reimbursable = TRUE]
               ELSE IF b = "Subtotal" THEN
                    IF ~st.in_reimbursable
                    THEN [st EXCEPT !.overall_subtotal_row = row]
                    ELSE [st EXCEPT !.reimbursable_subtotal_row = row]
               ELSE IF b \in Range(REIMBURSABLE_COST_LABELS)
                    THEN [st EXCEPT !.reimbursable_cost_rows = Append(@, row)]
               ELSE st
    IN IF IsTotalAmountDue(cell_d) THEN [st1 EXCEPT !.total_amount_due_row = row] ELSE st1

\* the values the five locals of the second pass can take
ScanState == [in_reimbursable : BOOLEAN,
              overall_subtotal_row : Nat,
              reimbursable_subtotal_row : Nat,
              reimbursable_cost_rows : Seq(Nat),
              total_amount_due_row : Nat]

\* second pass: for row in range(first, ws.max_row + 1); the loop over
\* lo..hi is the loop over its first half followed by the loop over its
\* second half
ScanFrom(sheet, first, st0) ==
    LET scan[lo \in Nat, hi \in Nat, st \in ScanState] ==
            IF lo > hi THEN st
            ELSE IF lo = hi THEN ScanStep(sheet, lo, st)
            ELSE scan[(lo + hi) \div 2 + 1, hi, scan[lo, (lo + hi) \div 2, st]]
    IN scan[first, MaxRow(sheet), st0]

\* second pass: overall subtotal, reimbursable rows, total amount due
ScanTotals(sheet) ==
    ScanFrom(sheet, 1, [in_reimbursable |-> FALSE,
                        overall_subtotal_row |-> 0,
                        reimbursable_subtotal_row |-> 0,
                        reimbursable_cost_rows |-> <<>>,
                        total_amount_due_row |-> 0])

\* NextPhaseRow that does not stop at the next phase header
NextPhaseRowIgnoringNextHeader(sheet, phase_rows, i, overall) ==
    IF overall # 0 THEN overall ELSE MaxRow(sheet)

\* the row that ends the section of the i-th phase header
NextPhaseRow(sheet, phase_rows, i, overall) ==
    IF i + 1 <= Len(phase_rows) THEN phase_rows[i + 1]
    ELSE IF overall # 0 THEN overall ELSE MaxRow(sheet)

\* the values phase_tasks and subtotal_row can take
PhaseScanState == [phase_tasks : Seq(Nat), subtotal_row : Nat]

\* the loop over range(phase_row + 1, next_phase_row), from first on; ps holds
\* phase_tasks and subtotal_row
ScanPhase(sheet, task_rows_map, first, next_phase_row, ps0) ==
    LET scan[row \in Nat, ps \in PhaseScanState] ==
            IF row >= next_phase_row THEN ps
            ELSE scan[row + 1,
                      IF row \in task_rows_map
                      THEN [ps EXCEPT !.phase_tasks = Append(@, row)]
                      ELSE IF ~Truthy(CellValue(sheet, row, 2))
                              /\ ps.phase_tasks # <<>> /\ ps.subtotal_row = 0
                      THEN [ps EXCEPT !.subtotal_row = row]
                      ELSE ps]
    IN scan[first, ps0]

\* phase_task_rows and phase_subtotal_rows, in insertion order: one record per
\* phase header that has task rows; subtotal_row 0 means no entry in
\* phase_subtotal_rows
RECURSIVE PhaseStructureFrom(_, _, _, _, _)
PhaseStructureFrom(sheet, phase_rows, task_rows_map, i, overall) ==
    IF i > Len(phase_rows) THEN <<>>
    ELSE LET ps == ScanPhase(sheet, task_rows_map, phase_rows[i] + 1,
                             NextPhaseRow(sheet, phase_rows, i, overall),
                             [phase_tasks |-> <<>>, subtotal_row |-> 0])
         IN (IF ps.phase_tasks # <<>>
             THEN <<[phase_row |-> phase_rows[i],
                     task_rows |-> ps.phase_tasks,
                     subtotal_row |-> ps.subtotal_row]>>
             ELSE <<>>)
            \o PhaseStructureFrom(sheet, phase_rows, task_rows_map, i + 1, overall)

PhaseStructure(sheet, overall) ==
    LET phase_rows == PhaseRows(sheet)
        task_rows_map == TaskRowsMap(sheet)
    IN PhaseStructureFrom(sheet, phase_rows, task_rows_map, 1, overall)

\* AllTaskRows that assigns instead of extending: the last phase's rows only
AllTaskRowsLastPhaseOnly(structure) ==
    IF structure = <<>> THEN <<>> ELSE structure[Len(structure)].task_rows

\* all_task_rows: the task rows of all phases, in insertion order
RECURSIVE AllTaskRows(_)
AllTaskRows(structure) ==
    IF structure = <<>> THEN <<>>
    ELSE Head(structure).task_rows \o AllTaskRows(Tail(structure))

\* phase_subtotal_list
RECURSIVE PhaseSubtotalList(_)
PhaseSubtotalList(structure) ==
    IF structure = <<>> THEN <<>>
    ELSE (IF Head(structure).subtotal_row # 0
          THEN <<Head(structure).subtotal_row>> ELSE <<>>)
         \o PhaseSubtotalList(Tail(structure))

\* 1. cost formulas, E = C * D, for the task rows given
WriteCostFormulas(sheet, task_rows) ==
    WriteCells(sheet, [i \in 1..Len(task_rows) |->
                          Write(task_rows[i], cost_col, Str(CostFormula(task_rows[i])))])

\* the formula of one phase subtotal
PhaseSubtotalFormula(task_rows) == RangeSumFormula(Min(task_rows), Max(task_rows))

\* 2. phase subtotal formulas, F = SUM(E:E)
RECURSIVE WritePhaseSubtotals(_, _)
WritePhaseSubtotals(sheet, structure) ==
    IF structure = <<>> THEN sheet
    ELSE WritePhaseSubtotals(
            IF Head(structure).subtotal_row # 0
            THEN SetCell(sheet, Head(structure).subtotal_row, total_col,
                         Str(PhaseSubtotalFormula(Head(structure).task_rows)))
            ELSE sheet,
            Tail(structure))

\* the explicit list of the units cells of the overall subtotal
UnitsParts(all_task_rows) == CellRefs("C", SortedAsc(all_task_rows))

\* the explicit list of the phase subtotal cells of the overall subtotal
TotalParts(phase_subtotal_list) == CellRefs("F", SortedAsc(phase_subtotal_list))

\* WriteOverallSubtotal without the guards against empty lists
WriteOverallSubtotalUnguarded(sheet, overall, all_task_rows, phase_subtotal_list) ==
    IF overall = 0 THEN sheet
    ELSE SetCell(SetCell(sheet, overall, units_col,
                         Str(ListSumFormula(UnitsParts(all_task_rows)))),
                 overall, total_col, Str(ListSumFormula(TotalParts(phase_subtotal_list))))

\* 3. overall subtotal formulas
WriteOverallSubtotal(sheet, overall, all_task_rows, phase_subtotal_list) ==
    IF overall = 0 THEN sheet
    ELSE LET s1 == IF all_task_rows # <<>>
                   THEN SetCell(sheet, overall, units_col,
                                Str(ListSumFormula(UnitsParts(all_task_rows))))
                   ELSE sheet
         IN IF phase_subtotal_list # <<>>
            THEN SetCell(s1, overall, total_col,
                         Str(ListSumFormula(TotalParts(phase_subtotal_list))))
            ELSE s1

\* 4. reimbursable subtotal formula
WriteReimbursableSubtotal(sheet, reimb, cost_rows) ==
    IF reimb # 0 /\ cost_rows # <<>>
    THEN SetCell(sheet, reimb, total_col, Str(RangeSumFormula(Min(cost_rows), Max(cost_rows))))
    ELSE sheet

\* WriteTotalAmountDue that never adds the reimbursable subtotal
WriteTotalAmountDueOverallOnly(sheet, total_due, overall, reimb) ==
    IF total_due # 0 /\ overall # 0
    THEN SetCell(sheet, total_due, total_col, Str(TotalDueOnlyFormula(overall)))
    ELSE sheet

\* WriteTotalAmountDue that patches the formula already in the cell
WriteTotalAmountDuePatching(sheet, total_due, overall, reimb) ==
    IF total_due # 0 /\ overall # 0
    THEN SetCell(sheet, total_due, total_col,
                 Str(CellText(CellValue(sheet, total_due, total_col))
                     \o "+F" \o ToString(overall)))
    ELSE sheet

\* 5. Total Amount Due formula
WriteTotalAmountDue(sheet, total_due, overall, reimb) ==
    IF total_due # 0 /\ overall # 0
    THEN IF reimb # 0
         THEN SetCell(sheet, total_due, total_col, Str(TotalDueFormula(overall, reimb)))
         ELSE SetCell(sheet, total_due, total_col, Str(TotalDueOnlyFormula(overall)))
    ELSE sheet

rebuild_formulas(sheet) ==
    LET st == ScanTotals(sheet)
        structure == PhaseStructure(sheet, st.overall_subtotal_row)
        all_task_rows == AllTaskRows(structure)
        s1 == WriteCostFormulas(sheet, all_task_rows)
        s2 == WritePhaseSubtotals(s1, structure)
        s3 == WriteOverallSubtotal(s2, st.overall_subtotal_row,
                                   all_task_rows, PhaseSubtotalList(structure))
        s4 == WriteReimbursableSubtotal(s3, st.reimbursable_subtotal_row,
                                        st.reimbursable_cost_rows)
    IN WriteTotalAmountDue(s4, st.total_amount_due_row, st.overall_subtotal_row,
                           st.reimbursable_subtotal_row)

-----------------------------------------------------------------------------
(* Spec: process_project_sheet on a copy of the template.                  *)

\* the (task, phase) keys that pass validate_codes
Keys == BILLABLE_TASK_CODES \X BILLABLE_PHASE_CODES

\* the sets of at most n keys
RECURSIVE KeySets(_)
KeySets(n) ==
    IF n = 0 THEN {{}}
    ELSE KeySets(n - 1) \cup {S \cup {k} : S \in KeySets(n - 1), k \in Keys}

\* the slices aggregate_hours can produce for a project from entries that
\* passed filter_zero_hours and validate_codes have at least one key and
\* positive values only: the ones with few keys, and the ones with hours
\* under every key, or under every key but one
Slices ==
    LET SparseSlices == UNION {[S -> 1..MaxHours] : S \in KeySets(MaxKeys) \ {{}}}
        DenseSlices == {[k \in Keys \ S |-> 1] : S \in KeySets(1)}
    IN SparseSlices \cup DenseSlices

SheetProjectIds == {<<"B", "o", " ", ":", " ", "2", "5">>}

InvoiceDates == {[month |-> "December", day |-> 5, year |-> 2025]}

Init ==
    /\ pc = "start"
    /\ project_id \in SheetProjectIds
    /\ invoice_date \in InvoiceDates
    /\ hours_dict \in Slices
    /\ rows_to_delete = <<>>
    /\ ws = Template
    /\ all_entries = <<>>
    /\ filtered_entries = <<>>
    /\ excluded_count = 0
    /\ errors = <<>>
    /\ aggregated = <<>>
    /\ grouped = <<>>
    /\ wb = <<>>
    /\ output = <<>>
    /\ table = <<>>
    /\ files = TemplateOnly
    /\ runs = <<>>
    /\ exception = ""
    /\ response = NoResponse

\* process_project_sheet: rows_to_delete = calculate_rows_to_delete(hours_dict)
CalculateRowsToDelete ==
    /\ pc = "start"
    /\ rows_to_delete' = calculate_rows_to_delete(hours_dict)
    /\ pc' = "calculated"
    /\ UNCHANGED <<project_id, invoice_date, hours_dict, ws, aggVars, envVars>>

\* process_project_sheet: populate_invoice_sheet (before deleting rows)
PopulateInvoiceSheet ==
    /\ pc = "calculated"
    /\ ws' = populate_invoice_sheet(ws, parse_project_id(project_id).name,
                                    parse_project_id(project_id).number,
                                    hours_dict, invoice_date)
    /\ pc' = "populated"
    /\ UNCHANGED <<project_id, invoice_date, hours_dict, rows_to_delete, aggVars, envVars>>

\* process_project_sheet: delete_rows_from_sheet(ws, rows_to_delete)
DeleteRowsFromSheet ==
    /\ pc = "populated"
    /\ ws' = delete_rows_from_sheet(ws, rows_to_delete)
    /\ pc' = "deleted"
    /\ UNCHANGED <<project_id, invoice_date, hours_dict, rows_to_delete, aggVars, envVars>>

\* process_project_sheet: apply_style_fixes(ws)
ApplyStyleFixes ==
    /\ pc = "deleted"
    /\ ws' = apply_style_fixes(ws)
    /\ pc' = "styled"
    /\ UNCHANGED <<project_id, invoice_date, hours_dict, rows_to_delete, aggVars, envVars>>

\* process_project_sheet: rebuild_formulas(ws)
RebuildFormulas ==
    /\ pc = "styled"
    /\ ws' = rebuild_formulas(ws)
    /\ pc' = "rebuilt"
    /\ UNCHANGED <<project_id, invoice_date, hours_dict, rows_to_delete, aggVars, envVars>>

\* rebuild_formulas run a second time on the rebuilt sheet
RebuildFormulasAgain ==
    /\ pc = "rebuilt"
    /\ ws' = rebuild_formulas(ws)
    /\ pc' = "rebuilt_again"
    /\ UNCHANGED <<project_id, invoice_date, hours_dict, rows_to_delete, aggVars, envVars>>

Next ==
    \/ CalculateRowsToDelete
    \/ PopulateInvoiceSheet
    \/ DeleteRowsFromSheet
    \/ ApplyStyleFixes
    \/ RebuildFormulas
    \/ RebuildFormulasAgain

Spec == Init /\ [][Next]_vars

-----------------------------------------------------------------------------
(* Filtering and validation of entries.  An entry is a record with the     *)
(* fields project_id (characters), date (0 for None, else the ordinal of   *)
(* the date), hours, task and phase; employee and wid are carried along    *)
(* unread by every function below and are left out.                        *)

UPPER_LETTERS == <<"A", "B", "C", "D", "E", "F", "G", "H", "I", "J", "K", "L", "M",
                   "N", "O", "P", "Q", "R", "S", "T", "U", "V", "W", "X", "Y", "Z">>
LOWER_LETTERS == <<"a", "b", "c", "d", "e", "f", "g", "h", "i", "j", "k", "l", "m",
                   "n", "o", "p", "q", "r", "s", "t", "u", "v", "w", "x", "y", "z">>

\* str.lower()
LowerChar(c) ==
    IF c \in Range(UPPER_LETTERS)
    THEN LOWER_LETTERS[CHOOSE i \in DOMAIN UPPER_LETTERS : UPPER_LETTERS[i] = c]
    ELSE c

Lower(chars) == [i \in DOMAIN chars |-> LowerChar(chars[i])]

\* core.config.NON_PROJECT_NAMES
NON_PROJECT_NAMES ==
    {<<"o", "f", "f", "i", "c", "e">>,
     <<"v", "a", "c", "a", "t", "i", "o", "n">>,
     <<"h", "o", "l", "i", "d", "a", "y">>,
     <<"s", "i", "c", "k">>,
     <<"p", "e", "r", "s", "o", "n", "a", "l", " ", "t", "i", "m", "e">>}

\* str.startswith
StartsWith(chars, prefix) ==
    Len(chars) >= Len(prefix) /\ SubSeq(chars, 1, Len(prefix)) = prefix

\* IsNonProjectEntry that takes any identifier beginning with a name
IsNonProjectEntryByPrefix(entry) ==
    LET pid == Lower(entry.project_id)
    IN \E non_project \in NON_PROJECT_NAMES : StartsWith(pid, non_project)

\* the test of filter_non_projects on one entry
IsNonProjectEntry(entry) ==
    LET pid == Lower(entry.project_id)
    IN \E non_project \in NON_PROJECT_NAMES :
            StartsWith(pid, non_project \o <<":">>) \/ pid = non_project

\* filter_non_projects: (filtered, excluded_count)
filter_non_projects(entries) ==
    LET Kept(e) == ~IsNonProjectEntry(e)
        filtered == SelectSeq(entries, Kept)
    IN [filtered |-> filtered, excluded_count |-> Len(entries) - Len(filtered)]

\* filter_zero_hours that keeps entries without hours
filter_negative_hours(entries) ==
    LET NotNegative(e) == e.hours >= 0
    IN SelectSeq(entries, NotNegative)

\* filter_zero_hours
filter_zero_hours(entries) ==
    LET Positive(e) == e.hours > 0
    IN SelectSeq(entries, Positive)

\* ', '.join(sorted(BILLABLE_TASK_CODES)) and the same for the phase codes
VALID_TASKS_TEXT == "3-D, D-D, DP, M, PM"
VALID_PHASES_TEXT == "CA, CD, DD, M, PD, SD"

\* the messages validate_codes appends for one entry
CodeErrorsOf(entry) ==
    (IF entry.task # "" /\ entry.task \notin BILLABLE_TASK_CODES
     THEN <<"Invalid Task code '" \o entry.task \o "' for project '"
            \o Text(entry.project_id) \o "' (valid: " \o VALID_TASKS_TEXT \o ")">>
     ELSE <<>>)
    \o
    (IF entry.phase # "" /\ entry.phase \notin BILLABLE_PHASE_CODES
     THEN <<"Invalid Phase code '" \o entry.phase \o "' for project '"
            \o Text(entry.project_id) \o "' (valid: " \o VALID_PHASES_TEXT \o ")">>
     ELSE <<>>)

\* validate_codes that returns at the first entry with a violation
RECURSIVE validate_codes_first(_)
validate_codes_first(entries) ==
    IF entries = <<>> THEN <<>>
    ELSE IF CodeErrorsOf(Head(entries)) # <<>> THEN CodeErrorsOf(Head(entries))
    ELSE validate_codes_first(Tail(entries))

\* validate_codes
RECURSIVE validate_codes(_)
validate_codes(entries) ==
    IF entries = <<>> THEN <<>>
    ELSE CodeErrorsOf(Head(entries)) \o validate_codes(Tail(entries))

\* ValidateProjectIdsFrom that never looks into seen: a message per entry
RECURSIVE ValidateProjectIdsPerEntry(_, _)
ValidateProjectIdsPerEntry(entries, seen) ==
    IF entries = <<>> THEN <<>>
    ELSE LET pid == Head(entries).project_id
         IN (IF ~HasColon(pid)
             THEN <<"Project ID missing colon separator: '" \o Text(pid) \o "'">>
             ELSE <<>>)
            \o ValidateProjectIdsPerEntry(Tail(entries), seen \cup {pid})

\* validate_project_ids, from the entries left with the identifiers in seen
RECURSIVE ValidateProjectIdsFrom(_, _)
ValidateProjectIdsFrom(entries, seen) ==
    IF entries = <<>> THEN <<>>
    ELSE LET pid == Head(entries).project_id
         IN IF pid \in seen THEN ValidateProjectIdsFrom(Tail(entries), seen)
            ELSE (IF ~HasColon(pid)
                  THEN <<"Project ID missing colon separator: '" \o Text(pid) \o "'">>
                  ELSE <<>>)
                 \o ValidateProjectIdsFrom(Tail(entries), seen \cup {pid})

validate_project_ids(entries) == ValidateProjectIdsFrom(entries, {})

-----------------------------------------------------------------------------
(* Aggregation.                                                            *)

\* d[k] = v on a dict
Put(d, k, v) == [j \in DOMAIN d \cup {k} |-> IF j = k THEN v ELSE d[j]]

EmptyDict == <<>>

\* Accumulate with = in place of +=
AccumulateOverwriting(result, project_id_, key, hours) ==
    LET slice == IF project_id_ \in DOMAIN result THEN result[project_id_] ELSE EmptyDict
    IN Put(result, project_id_, Put(slice, key, hours))

\* result[project_id][(task, phase)] += hours on the defaultdict of defaultdicts
Accumulate(result, project_id_, key, hours) ==
    LET slice == IF project_id_ \in DOMAIN result THEN result[project_id_] ELSE EmptyDict
    IN Put(result, project_id_, Put(slice, key, Get(slice, key) + hours))

\* AggregateFrom that takes an entry when either code is present
RECURSIVE AggregateFromEitherCode(_, _)
AggregateFromEitherCode(entries, result) ==
    IF entries = <<>> THEN result
    ELSE LET e == Head(entries)
         IN AggregateFromEitherCode(Tail(entries),
                IF e.task # "" \/ e.phase # ""
                THEN Accumulate(result, e.project_id, <<e.task, e.phase>>, e.hours)
                ELSE result)

\* the loop of aggregate_hours
RECURSIVE AggregateFrom(_, _)
AggregateFrom(entries, result) ==
    IF entries = <<>> THEN result
    ELSE LET e == Head(entries)
         IN AggregateFrom(Tail(entries),
                IF e.task # "" /\ e.phase # ""
                THEN Accumulate(result, e.project_id, <<e.task, e.phase>>, e.hours)
                ELSE result)

aggregate_hours(entries) == AggregateFrom(entries, EmptyDict)

\* date.min, as an ordinal
DATE_MIN == 1

\* the sort key of group_by_project: e["date"] or date.min
DateKey(e) == IF e.date = 0 THEN DATE_MIN ELSE e.date

\* InsertByDate that puts an element in front of the elements with its key
RECURSIVE InsertByDateBeforeEqual(_, _)
InsertByDateBeforeEqual(e, sorted) ==
    IF sorted = <<>> THEN <<e>>
    ELSE IF DateKey(e) <= DateKey(Head(sorted)) THEN <<e>> \o sorted
    ELSE <<Head(sorted)>> \o InsertByDateBeforeEqual(e, Tail(sorted))

\* list.sort(key=...) is stable: an element goes behind all elements whose key
\* is not greater
RECURSIVE InsertByDate(_, _)
InsertByDate(e, sorted) ==
    IF sorted = <<>> THEN <<e>>
    ELSE IF DateKey(e) < DateKey(Head(sorted)) THEN <<e>> \o sorted
    ELSE <<Head(sorted)>> \o InsertByDate(e, Tail(sorted))

RECURSIVE SortByDateFrom(_, _)
SortByDateFrom(list, sorted) ==
    IF list = <<>> THEN sorted
    ELSE SortByDateFrom(Tail(list), InsertByDate(Head(list), sorted))

SortByDate(list) == SortByDateFrom(list, <<>>)

\* GroupAppend that assigns a fresh list instead of appending
GroupAppendReplacing(grouped_, e) == Put(grouped_, e.project_id, <<e>>)

\* grouped[entry["project_id"]].append(entry) on the defaultdict of lists
GroupAppend(grouped_, e) ==
    Put(grouped_, e.project_id,
        (IF e.project_id \in DOMAIN grouped_ THEN grouped_[e.project_id] ELSE <<>>)
        \o <<e>>)

\* the first loop of group_by_project
RECURSIVE GroupFrom(_, _)
GroupFrom(entries, grouped_) ==
    IF entries = <<>> THEN grouped_
    ELSE GroupFrom(Tail(entries), GroupAppend(grouped_, Head(entries)))

group_by_project(entries) ==
    LET g == GroupFrom(entries, EmptyDict)
    IN [p \in DOMAIN g |-> SortByDate(g[p])]

-----------------------------------------------------------------------------
(* SpecAgg: the entry pipeline of _process_invoices, from the entries read *)
(* to the aggregated matrix and the grouped detail lists.                  *)

Entry(pid, date, hours, codes) ==
    [project_id |-> pid, date |-> date, hours |-> hours, task |-> codes[1], phase |-> codes[2]]

\* entries of two billable projects with positive hours, without a date and
\* with two dates, with two keys of one phase and with a missing phase code;
\* an entry of a non-project category and an entry without hours
AggEntries ==
    LET AggProjectIds == {<<"A", ":", "1">>, <<"B", ":", "2">>}
        AggDates == {0, 20, 21}
        AggCodes == {<<"DP", "SD">>, <<"PM", "SD">>, <<"PM", "">>}
    IN {Entry(pid, d, h, c) : pid \in AggProjectIds, d \in AggDates, h \in 1..MaxHours,
                              c \in AggCodes}
       \cup {Entry(<<"S", "i", "c", "k", ":", "0">>, 20, 1, <<"DP", "SD">>),
             Entry(<<"A", ":", "1">>, 21, 0, <<"DP", "SD">>)}

\* the lists of at most n entries
RECURSIVE EntryLists(_)
EntryLists(n) ==
    IF n = 0 THEN {<<>>}
    ELSE EntryLists(n - 1)
         \cup {Append(l, e) : l \in {k \in EntryLists(n - 1) : Len(k) = n - 1},
                              e \in AggEntries}

InitAgg ==
    /\ pc = "read"
    /\ all_entries \in EntryLists(MaxEntries)
    /\ filtered_entries = <<>>
    /\ excluded_count = 0
    /\ errors = <<>>
    /\ aggregated = EmptyDict
    /\ grouped = EmptyDict
    /\ project_id = <<>>
    /\ invoice_date \in InvoiceDates
    /\ hours_dict = EmptyDict
    /\ rows_to_delete = <<>>
    /\ ws = <<>>
    /\ wb = <<>>
    /\ output = <<>>
    /\ table = <<>>
    /\ files = TemplateOnly
    /\ runs = <<>>
    /\ exception = ""
    /\ response = NoResponse

\* _process_invoices: filter_non_projects, then filter_zero_hours
FilterEntries ==
    /\ pc = "read"
    /\ filtered_entries' = filter_zero_hours(filter_non_projects(all_entries).filtered)
    /\ excluded_count' = filter_non_projects(all_entries).excluded_count
    /\ pc' = "filtered"
    /\ UNCHANGED <<all_entries, errors, aggregated, grouped, wb, output, sheetVars, envVars>>

\* ValidateEntries with the validators run on the entries as read
ValidateEntriesAsRead ==
    /\ pc = "filtered"
    /\ LET project_errors == validate_project_ids(all_entries)
           code_errors == validate_codes(all_entries)
       IN IF project_errors # <<>>
          THEN errors' = project_errors /\ pc' = "failed"
          ELSE IF code_errors # <<>>
          THEN errors' = code_errors /\ pc' = "failed"
          ELSE IF filtered_entries = <<>>
          THEN errors' = <<"No billable projects found in input file">> /\ pc' = "failed"
          ELSE errors' = <<>> /\ pc' = "validated"
    /\ exception' = IF pc' = "failed" THEN "ValueError" ELSE exception
    /\ UNCHANGED <<all_entries, filtered_entries, excluded_count, aggregated, grouped,
                   wb, output, sheetVars, table, files, runs, response>>

\* _process_invoices: validate_project_ids, validate_codes and the check for
\* billable projects; the first that fails raises ValueError with its messages
ValidateEntries ==
    /\ pc = "filtered"
    /\ LET project_errors == validate_project_ids(filtered_entries)
           code_errors == validate_codes(filtered_entries)
       IN IF project_errors # <<>>
          THEN errors' = project_errors /\ pc' = "failed"
          ELSE IF code_errors # <<>>
          THEN errors' = code_errors /\ pc' = "failed"
          ELSE IF filtered_entries = <<>>
          THEN errors' = <<"No billable projects found in input file">> /\ pc' = "failed"
          ELSE errors' = <<>> /\ pc' = "validated"
    /\ exception' = IF pc' = "failed" THEN "ValueError" ELSE exception
    /\ UNCHANGED <<all_entries, filtered_entries, excluded_count, aggregated, grouped,
                   wb, output, sheetVars, table, files, runs, response>>

\* _process_invoices: aggregate_hours and group_by_project
AggregateAndGroup ==
    /\ pc = "validated"
    /\ aggregated' = aggregate_hours(filtered_entries)
    /\ grouped' = group_by_project(filtered_entries)
    /\ pc' = "aggregated"
    /\ UNCHANGED <<all_entries, filtered_entries, excluded_count, errors, wb, output,
                   sheetVars, envVars>>

NextAgg ==
    \/ FilterEntries
    \/ ValidateEntries
    \/ AggregateAndGroup

SpecAgg == InitAgg /\ [][NextAgg]_vars

-----------------------------------------------------------------------------
(* Workbook assembly: make_sheet_name and create_invoice_workbook.  A      *)
(* sheet of the workbook is a record with its title (characters), its kind *)
(* ("template", "invoice" or "detail") and the project it was made for.    *)

MAX_SHEET_NAME_LENGTH == 31

\* name.replace(":", " -")
RECURSIVE ReplaceColon(_)
ReplaceColon(chars) ==
    IF chars = <<>> THEN <<>>
    ELSE IF Len(chars) = 1 THEN (IF chars[1] = ":" THEN <<" ", "-">> ELSE chars)
    ELSE LET mid == Len(chars) \div 2
         IN ReplaceColon(SubSeq(chars, 1, mid))
            \o ReplaceColon(SubSeq(chars, mid + 1, Len(chars)))

\* invalid_chars of make_sheet_name
INVALID_CHARS == {"\\", "/", "?", "*", "[", "]"}

\* the loop of sanitized.replace(char, "-") over invalid_chars
ReplaceInvalid(chars) ==
    [i \in DOMAIN chars |-> IF chars[i] \in INVALID_CHARS THEN "-" ELSE chars[i]]

\* make_sheet_name that cuts the base at MAX_SHEET_NAME_LENGTH, whatever the
\* suffix
make_sheet_name_uncut(name, suffix) ==
    LET sanitized == ReplaceInvalid(ReplaceColon(name))
    IN (IF Len(sanitized) > MAX_SHEET_NAME_LENGTH
        THEN RStrip(SubSeq(sanitized, 1, MAX_SHEET_NAME_LENGTH))
        ELSE sanitized) \o suffix

\* make_sheet_name
make_sheet_name(name, suffix) ==
    LET sanitized == ReplaceInvalid(ReplaceColon(name))
        max_base_len == MAX_SHEET_NAME_LENGTH - Len(suffix)
    IN (IF Len(sanitized) > max_base_len
        THEN RStrip(SubSeq(sanitized, 1, max_base_len))
        ELSE sanitized) \o suffix

\* the characters of the model in the order of their code points
CODE_POINTS ==
    <<" ", "*", "-", "/", "0", "1", "2", "3", "4", "5", "6", "7", "8", "9", ":", "?">>
    \o UPPER_LETTERS \o <<"[", "\\", "]">> \o LOWER_LETTERS

Ord(c) == CHOOSE i \in DOMAIN CODE_POINTS : CODE_POINTS[i] = c

\* a < b on two Python strings
StrLess(a, b) ==
    \E i \in 1..(Len(b)) :
        /\ i <= Len(a) + 1
        /\ \A j \in 1..(i - 1) : a[j] = b[j]
        /\ (i = Len(a) + 1 \/ Ord(a[i]) < Ord(b[i]))

\* p.split(":")[0]
BeforeColon(chars) ==
    IF HasColon(chars) THEN SubSeq(chars, 1, FirstColon(chars) - 1) ELSE chars

\* the sort key without strip() and lower()
SortKeyRaw(p) == BeforeColon(p)

\* the sort key of create_invoice_workbook: p.split(":")[0].strip().lower()
SortKey(p) == Lower(Strip(BeforeColon(p)))

\* sorted(..., key=...) is stable: an element goes behind all elements whose
\* key is not greater
RECURSIVE InsertByName(_, _)
InsertByName(p, sorted) ==
    IF sorted = <<>> THEN <<p>>
    ELSE IF StrLess(SortKey(p), SortKey(Head(sorted))) THEN <<p>> \o sorted
    ELSE <<Head(sorted)>> \o InsertByName(p, Tail(sorted))

RECURSIVE SortByNameFrom(_, _)
SortByNameFrom(list, sorted) ==
    IF list = <<>> THEN sorted
    ELSE SortByNameFrom(Tail(list), InsertByName(Head(list), sorted))

SortByName(list) == SortByNameFrom(list, <<>>)

\* list(aggregate_hours(entries).keys()): a dict keeps its keys in the order
\* of their insertion, here the first entry of the project with both codes
RECURSIVE AggregatedKeysFrom(_, _)
AggregatedKeysFrom(entries, keys) ==
    IF entries = <<>> THEN keys
    ELSE LET e == Head(entries)
         IN AggregatedKeysFrom(Tail(entries),
                IF e.task # "" /\ e.phase # "" /\ e.project_id \notin Range(keys)
                THEN Append(keys, e.project_id)
                ELSE keys)

AggregatedKeys(entries) == AggregatedKeysFrom(entries, <<>>)

\* template_ws.title
TEMPLATE_NAME == <<"T", "e", "m", "p", "l", "a", "t", "e">>

Sheet(title, kind, pid) == [title |-> title, kind |-> kind, project_id |-> pid]

\* the body of the loop of create_invoice_workbook: the copy of the template
\* titled as invoice sheet, then the detail sheet
AddProjectSheets(sheets, pid) ==
    sheets \o <<Sheet(make_sheet_name(pid, <<" ", "A">>), "invoice", pid),
                Sheet(make_sheet_name(pid, <<" ", "B">>), "detail", pid)>>

RECURSIVE AddSheetsFrom(_, _)
AddSheetsFrom(projects, sheets) ==
    IF projects = <<>> THEN sheets
    ELSE AddSheetsFrom(Tail(projects), AddProjectSheets(sheets, Head(projects)))

\* del wb[template_name]
RemoveSheet(sheets, title) ==
    LET i == CHOOSE j \in DOMAIN sheets :
                 sheets[j].title = title /\ \A k \in 1..(j - 1) : sheets[k].title # title
    IN SubSeq(sheets, 1, i - 1) \o SubSeq(sheets, i + 1, Len(sheets))

\* create_invoice_workbook, on the keys of aggregated_data in dict order
create_invoice_workbook(keys) ==
    LET template == <<Sheet(TEMPLATE_NAME, "template", <<>>)>>
        sorted_projects == SortByName(keys)
    IN RemoveSheet(AddSheetsFrom(sorted_projects, template), TEMPLATE_NAME)

-----------------------------------------------------------------------------
(* SpecPipe: _process_invoices from the entries read to the workbook.      *)

\* identifiers of billable projects: a name in lower case, a later name in
\* upper case, and that name again in lower case with a blank in front of the
\* separator
Dated(pid, date) == Entry(pid, date, 1, <<"PM", "SD">>)

PipeEntries ==
    \* billable, valid: the three projects; undated, dated date.min, a later date
    {Dated(pid, 20) : pid \in {<<"B", ":", "1">>, <<"a", ":", "2">>, <<"b", " ", ":", "3">>}}
    \cup {Dated(<<"a", ":", "2">>, 0), Dated(<<"a", ":", "2">>, DATE_MIN),
          Dated(<<"a", ":", "2">>, 21)}
    \* a second key of the same phase, more hours, a missing phase code
    \cup {Entry(<<"a", ":", "2">>, 20, 2, <<"DP", "SD">>),
          Entry(<<"a", ":", "2">>, 20, 1, <<"PM", "">>)}
    \* identifiers without separator
    \cup {Dated(<<"N", "o", "C", "o", "l", "o", "n">>, 20), Dated(<<>>, 20)}
    \* codes outside the billable sets
    \cup {Entry(<<"a", ":", "2">>, 20, 1, <<"XX", "SD">>),
          Entry(<<"B", ":", "1">>, 20, 1, <<"XX", "YY">>)}
    \* non-project categories, the bare one with an invalid code
    \cup {Dated(<<"S", "I", "C", "K", ":", "0">>, 20),
          Entry(<<"S", "i", "c", "k">>, 20, 1, <<"XX", "SD">>),
          Dated(<<"S", "i", "c", "k", " ", ":", "0">>, 20),
          Dated(<<"S", "i", "c", "k", "l", "y", ":", "4">>, 20)}
    \* no hours and negative hours, with valid codes, with an invalid code and
    \* without separator
    \cup {Entry(<<"B", ":", "1">>, 20, 0, <<"PM", "DD">>),
          Entry(<<"a", ":", "2">>, 20, 0, <<"XX", "SD">>),
          Entry(<<"N", "o", "C", "o", "l", "o", "n">>, 20, -1, <<"PM", "SD">>)}

\* the lists of at most n entries of PipeEntries
RECURSIVE PipeLists(_)
PipeLists(n) ==
    IF n = 0 THEN {<<>>}
    ELSE PipeLists(n - 1)
         \cup {Append(l, e) : l \in {k \in PipeLists(n - 1) : Len(k) = n - 1},
                              e \in PipeEntries}

InitPipe ==
    /\ pc = "read"
    /\ all_entries \in PipeLists(MaxEntries)
    /\ filtered_entries = <<>>
    /\ excluded_count = 0
    /\ errors = <<>>
    /\ aggregated = EmptyDict
    /\ grouped = EmptyDict
    /\ wb = <<>>
    /\ output = <<>>
    /\ table = <<>>
    /\ files = TemplateOnly
    /\ runs = <<>>
    /\ exception = ""
    /\ response = NoResponse
    /\ project_id = <<>>
    /\ invoice_date \in InvoiceDates
    /\ hours_dict = EmptyDict
    /\ rows_to_delete = <<>>
    /\ ws = <<>>

\* _process_invoices: create_invoice_workbook(TEMPLATE_PATH, aggregated,
\* grouped), which raises FileNotFoundError when the template does not exist
CreateInvoiceWorkbook ==
    /\ pc = "aggregated"
    /\ IF TEMPLATE_PATH \in DOMAIN files
       THEN /\ wb' = create_invoice_workbook(AggregatedKeys(filtered_entries))
            /\ pc' = "created"
            /\ UNCHANGED exception
       ELSE /\ exception' = "FileNotFoundError"
            /\ pc' = "failed"
            /\ UNCHANGED wb
    /\ UNCHANGED <<all_entries, filtered_entries, excluded_count, errors, aggregated,
                   grouped, output, sheetVars, table, files, runs, response>>

\* the InvoiceResult that _process_invoices returns
InvoiceResult ==
    [workbook |-> wb,
     project_count |-> Cardinality(DOMAIN aggregated),
     total_hours |-> SumValues([p \in DOMAIN aggregated |-> SumValues(aggregated[p])]),
     entries |-> filtered_entries]

\* generate_invoices and generate_invoices_to_bytes: once _process_invoices has
\* returned, result.workbook.save(...) to the output file or to the buffer
SaveWorkbook ==
    /\ pc = "created"
    /\ output' = wb
    /\ pc' = "saved"
    /\ UNCHANGED <<all_entries, filtered_entries, excluded_count, errors, aggregated,
                   grouped, wb, sheetVars, envVars>>

NextPipe ==
    \/ FilterEntries
    \/ ValidateEntries
    \/ AggregateAndGroup
    \/ CreateInvoiceWorkbook
    \/ SaveWorkbook

SpecPipe == InitPipe /\ [][NextPipe]_vars

-----------------------------------------------------------------------------
(* SpecBook: the pipeline of SpecPipe on projects whose identifiers differ *)
(* in what make_sheet_name replaces or cuts off.                           *)

\* one entry for each identifier: plain ones; ones that differ in a character
\* a sheet name cannot hold, or in a colon against the blank and hyphen that
\* replace it; ones that differ behind the length a sheet name can have
BookEntries ==
    LET Long == [i \in 1..(MAX_SHEET_NAME_LENGTH - 2) |-> "x"]
    IN {Dated(pid, 20) :
            pid \in {<<"B", ":", "2">>, <<"a", ":", "1">>,
                     <<"a", "/", "b", ":", "1">>, <<"a", "?", "b", ":", "1">>,
                     <<"a", "-", "b", ":", "1">>,
                     <<"a", ":", " ", "-", "1">>, <<"a", " ", "-", ":", "1">>,
                     Long \o <<":", "1">>, Long \o <<":", "2">>}}

InitBook ==
    /\ pc = "read"
    /\ all_entries \in UNION {[1..n -> BookEntries] : n \in 0..MaxEntries}
    /\ filtered_entries = <<>>
    /\ excluded_count = 0
    /\ errors = <<>>
    /\ aggregated = EmptyDict
    /\ grouped = EmptyDict
    /\ wb = <<>>
    /\ output = <<>>
    /\ table = <<>>
    /\ files = TemplateOnly
    /\ runs = <<>>
    /\ exception = ""
    /\ response = NoResponse
    /\ project_id = <<>>
    /\ invoice_date \in InvoiceDates
    /\ hours_dict = EmptyDict
    /\ rows_to_delete = <<>>
    /\ ws = <<>>

SpecBook == InitBook /\ [][NextPipe]_vars

-----------------------------------------------------------------------------
(* SpecName: make_sheet_name on the titles of one project's two sheets.    *)

\* identifiers: a run of letters, none, two, or so many that the sheet name
\* is cut in or next to what follows; then a separator or characters that a
\* sheet name cannot hold; then a number
SheetNameInputs ==
    LET Pad(n) == [i \in 1..n |-> "x"]
        fronts == {Pad(n) : n \in {0, 2} \cup (MaxPad - 3)..MaxPad}
        middles == {<<>>, <<":">>, <<" ">>, <<" ", ":", " ">>, <<"/">>, <<"[", "]">>,
                    <<"\\", "?", "*">>}
        tails == {<<>>, <<"1">>, <<" ", "2", "5">>, <<"1", "2", "3", "4", "5">>}
    IN {f \o m \o t : f \in fronts, m \in middles, t \in tails}

InitName ==
    /\ pc = "name"
    /\ project_id \in SheetNameInputs
    /\ wb = <<>>
    /\ output = <<>>
    /\ table = <<>>
    /\ files = TemplateOnly
    /\ runs = <<>>
    /\ exception = ""
    /\ response = NoResponse
    /\ all_entries = <<>>
    /\ filtered_entries = <<>>
    /\ excluded_count = 0
    /\ errors = <<>>
    /\ aggregated = EmptyDict
    /\ grouped = EmptyDict
    /\ invoice_date \in InvoiceDates
    /\ hours_dict = EmptyDict
    /\ rows_to_delete = <<>>
    /\ ws = <<>>

\* create_invoice_workbook: the two sheets of one project, titled by
\* make_sheet_name
MakeSheetNames ==
    /\ pc = "name"
    /\ wb' = AddProjectSheets(<<>>, project_id)
    /\ pc' = "named"
    /\ UNCHANGED <<all_entries, filtered_entries, excluded_count, errors, aggregated,
                   grouped, output, sheetVars, envVars>>

NextName == MakeSheetNames

SpecName == InitName /\ [][NextName]_vars

-----------------------------------------------------------------------------
(* Output files: generate_output_filename and generate_invoices.  A date   *)
(* is here a record of year, month and day; files maps the name of each    *)
(* file that exists to what was written to it.                             *)

\* the date of an entry that has none
NoDate == [year |-> 0, month |-> 0, day |-> 0]

\* f"{month:02d}"
TwoDigits(n) == IF n < 10 THEN "0" \o ToString(n) ELSE ToString(n)

\* the loop of generate_output_filename from suffix_char on, the letters
\* counted from 1: the first name that no file has, or the RuntimeError
RECURSIVE FirstUnused(_, _, _)
FirstUnused(existing, base_name, suffix_char) ==
    LET filename == base_name \o "_" \o LOWER_LETTERS[suffix_char] \o ".xlsx"
    IN IF filename \notin existing THEN [path |-> filename, error |-> ""]
       ELSE IF suffix_char + 1 > Len(LOWER_LETTERS)
       THEN [path |-> "", error |-> "Too many output files exist"]
       ELSE FirstUnused(existing, base_name, suffix_char + 1)

\* generate_output_filename that takes the current date whatever the entries
generate_output_filename_today(existing, entries, today) ==
    FirstUnused(existing,
                "invoices_" \o ToString(today.year) \o "_" \o TwoDigits(today.month), 1)

\* generate_output_filename, with the names of the files that exist and the
\* value of date.today()
generate_output_filename(existing, entries, today) ==
    LET dated == {i \in DOMAIN entries : entries[i].date # NoDate}
        first == IF dated = {} THEN today
                 ELSE entries[CHOOSE i \in dated : \A j \in dated : i <= j].date
    IN FirstUnused(existing,
                   "invoices_" \o ToString(first.year) \o "_" \o TwoDigits(first.month), 1)

-----------------------------------------------------------------------------
(* SpecRuns and SpecRace: two invocations of generate_invoices on one      *)
(* output directory, in SpecRuns one after the other, in SpecRace in any   *)
(* interleaving of their steps.                                            *)

Runs == {1, 2}

\* result.entries of a run, reduced to the dates: no dated entry; an undated
\* entry in front of two dated ones; entries of two months in either order
RunEntries ==
    LET Day(y, m) == [date |-> [year |-> y, month |-> m, day |-> 20]]
    IN {<<[date |-> NoDate]>>,
        <<[date |-> NoDate], Day(2025, 11), Day(2025, 12)>>,
        <<Day(2025, 12), Day(2025, 11)>>,
        <<Day(2025, 9)>>}

\* the output directory at the start: empty; the first letters taken; letters
\* taken behind a free one; every letter taken but one, or but none
OutputDirs ==
    LET Named(letters) ==
            {"invoices_2025_11_" \o LOWER_LETTERS[i] \o ".xlsx" : i \in letters}
        Taken == {{}, {1}, {1, 2}, {2}, {1, 3}, 1..26, 1..25, 1..26 \ {13}, 2..26}
    IN {[f \in Named(letters) \cup other |-> 0] :
            letters \in Taken, other \in {{}, {"invoices_2025_12_a.xlsx"}}}

InitRuns ==
    /\ pc = "runs"
    /\ files \in OutputDirs
    /\ runs \in [Runs -> [pc : {"start"}, entries : RunEntries,
                          today : {[year |-> 2025, month |-> 12, day |-> 5]},
                          output_file : {""}]]
    /\ exception = ""
    /\ response = NoResponse
    /\ table = <<>>
    /\ wb = <<>>
    /\ output = <<>>
    /\ all_entries = <<>>
    /\ filtered_entries = <<>>
    /\ excluded_count = 0
    /\ errors = <<>>
    /\ aggregated = EmptyDict
    /\ grouped = EmptyDict
    /\ project_id = <<>>
    /\ invoice_date \in InvoiceDates
    /\ hours_dict = EmptyDict
    /\ rows_to_delete = <<>>
    /\ ws = <<>>

\* generate_invoices of run r up to the choice of the output file:
\* output_file = generate_output_filename(input_file, result.entries)
GenerateOutputFilename(r) ==
    /\ runs[r].pc = "start"
    /\ LET chosen == generate_output_filename(DOMAIN files, runs[r].entries, runs[r].today)
       IN runs' = [runs EXCEPT ![r].pc = IF chosen.error = "" THEN "named" ELSE "failed",
                               ![r].output_file = chosen.path]
    /\ UNCHANGED <<pc, files, table, exception, response, sheetVars, aggVars>>

\* generate_invoices of run r from there: result.workbook.save(output_file),
\* which creates the file or replaces the one of that name
SaveOutputFile(r) ==
    /\ runs[r].pc = "named"
    /\ files' = [f \in DOMAIN files \cup {runs[r].output_file} |->
                    IF f = runs[r].output_file THEN r ELSE files[f]]
    /\ runs' = [runs EXCEPT ![r].pc = "saved"]
    /\ UNCHANGED <<pc, table, exception, response, sheetVars, aggVars>>

\* a run begins when no other run is between its choice and its save
NextRuns ==
    \/ \E r \in Runs :
        /\ \A q \in Runs \ {r} : runs[q].pc # "named"
        /\ GenerateOutputFilename(r)
    \/ \E r \in Runs : SaveOutputFile(r)

SpecRuns == InitRuns /\ [][NextRuns]_vars

NextRace ==
    \/ \E r \in Runs : GenerateOutputFilename(r)
    \/ \E r \in Runs : SaveOutputFile(r)

SpecRace == InitRuns /\ [][NextRace]_vars

-----------------------------------------------------------------------------
(* Reading the input: read_timesheet_data.  A cell of the input table is a *)
(* record of its Python type ("NoneType", "float", "str", "datetime",      *)
(* "timedelta") with its number or its characters; a datetime cell holds   *)
(* the ordinal of its day.  The columns of project, task and phase hold    *)
(* text or nothing.                                                        *)

\* `x if cell else y`: None, 0.0 and "" are falsy, a datetime is truthy, a
\* timedelta is unless it is zero
CellTruthy(c) ==
    \/ c.type \in {"float", "timedelta"} /\ c.number # 0
    \/ c.type = "str" /\ c.chars # <<>>
    \/ c.type = "datetime"

\* str.upper()
Upper(chars) ==
    [i \in DOMAIN chars |->
        IF chars[i] \in Range(LOWER_LETTERS)
        THEN UPPER_LETTERS[CHOOSE k \in DOMAIN LOWER_LETTERS : LOWER_LETTERS[k] = chars[i]]
        ELSE chars[i]]

DIGITS == <<"0", "1", "2", "3", "4", "5", "6", "7", "8", "9">>

IsDigits(chars) == chars # <<>> /\ \A i \in DOMAIN chars : chars[i] \in Range(DIGITS)

\* int() of a sequence of digits
RECURSIVE NumberOf(_)
NumberOf(chars) ==
    IF chars = <<>> THEN 0
    ELSE NumberOf(SubSeq(chars, 1, Len(chars) - 1)) * 10
         + (CHOOSE d \in 0..9 : DIGITS[d + 1] = chars[Len(chars)])

\* float(cell): the number itself; of a text the number written in it with
\* the blanks around it dropped, ValueError when it is not a number (texts
\* of digits and texts without a digit are told apart, other notations of a
\* float are not modelled); TypeError for a datetime or a timedelta
Float(c) ==
    IF c.type = "float" THEN [value |-> c.number, exception |-> ""]
    ELSE IF c.type = "str"
    THEN IF IsDigits(Strip(c.chars))
         THEN [value |-> NumberOf(Strip(c.chars)), exception |-> ""]
         ELSE [value |-> 0, exception |-> "ValueError"]
    ELSE [value |-> 0, exception |-> "TypeError"]

\* date(year, month, day).toordinal()
ToOrdinal(year, month, day) ==
    LET y == year - 1
        leap == year % 4 = 0 /\ (year % 100 # 0 \/ year % 400 = 0)
        before == <<0, 31, 59, 90, 120, 151, 181, 212, 243, 273, 304, 334>>
    IN y * 365 + (y \div 4) - (y \div 100) + (y \div 400)
       + before[month] + (IF month > 2 /\ leap THEN 1 ELSE 0) + day

\* datetime.strptime(chars, "%m/%d/%Y").date() as an ordinal, 0 (None) where
\* strptime raises ValueError: month and day of one or two digits, the year
\* of four, and the day one that the month has
strptime(chars) ==
    LET slashes == {i \in DOMAIN chars : chars[i] = "/"}
        s1 == CHOOSE i \in slashes : \A j \in slashes : i <= j
        s2 == CHOOSE i \in slashes : \A j \in slashes : j <= i
        m == SubSeq(chars, 1, s1 - 1)
        d == SubSeq(chars, s1 + 1, s2 - 1)
        y == SubSeq(chars, s2 + 1, Len(chars))
        leap == NumberOf(y) % 4 = 0 /\ (NumberOf(y) % 100 # 0 \/ NumberOf(y) % 400 = 0)
        days == <<31, IF leap THEN 29 ELSE 28, 31, 30, 31, 30, 31, 31, 30, 31, 30, 31>>
    IN IF /\ Cardinality(slashes) = 2
          /\ IsDigits(m) /\ Len(m) <= 2 /\ NumberOf(m) \in 1..12
          /\ IsDigits(d) /\ Len(d) <= 2 /\ NumberOf(d) \in 1..days[NumberOf(m)]
          /\ IsDigits(y) /\ Len(y) = 4 /\ NumberOf(y) >= 1
       THEN ToOrdinal(NumberOf(y), NumberOf(m), NumberOf(d))
       ELSE 0

\* the loop of read_timesheet_data over the rows from the i-th on: the
\* entries, or the exception that float() raised
RECURSIVE ReadRows(_, _, _)
ReadRows(rows, i, entries) ==
    IF i > Len(rows) THEN [entries |-> entries, exception |-> "", message |-> ""]
    ELSE LET row == rows[i]
         IN IF Len(row) < 9 THEN ReadRows(rows, i + 1, entries)
            ELSE IF CellTruthy(row[6]) /\ Float(row[6]).exception # ""
            THEN [entries |-> <<>>, exception |-> Float(row[6]).exception,
                  message |-> IF Float(row[6]).exception = "ValueError"
                              THEN "could not convert string to float: '"
                                   \o Text(row[6].chars) \o "'"
                              ELSE "float() argument must be a string or a real number, not '"
                                   \o row[6].type \o "'"]
            ELSE LET hours == IF CellTruthy(row[6]) THEN Float(row[6]).value ELSE 0
                     date_val == IF row[2].type = "datetime" THEN row[2].number
                                 ELSE IF row[2].type = "str" THEN strptime(row[2].chars)
                                 ELSE 0
                 IN ReadRows(rows, i + 1,
                        Append(entries,
                               Entry(Strip(row[1].chars), date_val, hours,
                                     <<Text(Upper(Strip(row[7].chars))),
                                       Text(Upper(Strip(row[8].chars)))>>)))

\* read_timesheet_data on the rows of the table, the header first
read_timesheet_data(rows) ==
    IF Len(rows) < 2
    THEN [entries |-> <<>>, exception |-> "ValueError",
          message |-> "Input file contains no data rows"]
    ELSE ReadRows(rows, 2, <<>>)

-----------------------------------------------------------------------------
(* SpecHttp: one request of generate_invoices_endpoint that has passed the *)
(* checks of the request: _process_in_thread with its temporary file,      *)
(* generate_invoices_to_bytes, and the response made of the outcome.       *)

\* tmp.name
tmp_path == "tmp.numbers"

\* data rows: well-formed ones with a datetime and with a date text, codes in
\* lower case with blanks; date texts that strptime rejects; hours cells that
\* are empty, an empty text, zero, a text of digits, a text that is no
\* number, a duration; a short row; rows that the filters and the validators
\* reject
TableRows ==
    LET NoneCell == [type |-> "NoneType", number |-> 0, chars |-> <<>>]
        FloatCell(x) == [type |-> "float", number |-> x, chars |-> <<>>]
        StrCell(chars) == [type |-> "str", number |-> 0, chars |-> chars]
        DatetimeCell(ordinal) == [type |-> "datetime", number |-> ordinal, chars |-> <<>>]
        TimedeltaCell(seconds) == [type |-> "timedelta", number |-> seconds, chars |-> <<>>]
        Chars(p) == CASE p = "a" -> <<"a", ":", "2">>
                      [] p = "B" -> <<" ", "B", ":", "1", " ">>
                      [] p = "Sick" -> <<"S", "i", "c", "k">>
        Row(p, date, hours, task, phase) ==
            <<StrCell(Chars(p)), date, NoneCell, NoneCell, NoneCell, hours,
              StrCell(task), StrCell(phase), NoneCell>>
        OnDay == DatetimeCell(ToOrdinal(2025, 1, 21))
        PM == <<"P", "M">>
        SD == <<"S", "D">>
        Good(date, hours) == Row("a", date, hours, PM, SD)
    IN {Good(OnDay, FloatCell(2)),
        Row("B", StrCell(<<"0", "1", "/", "2", "0", "/", "2", "0", "2", "5">>),
            StrCell(<<" ", "1">>), <<" ", "p", "m">>, <<"s", "d", " ">>),
        Good(StrCell(<<"2", "0", "2", "5", "-", "0", "1", "-", "2", "0">>), FloatCell(1)),
        Good(StrCell(<<"0", "2", "/", "3", "0", "/", "2", "0", "2", "5">>), FloatCell(1)),
        Good(StrCell(<<"1", "/", "5", "/", "2", "5">>), FloatCell(1)),
        Good(NoneCell, FloatCell(1)),
        Good(OnDay, NoneCell),
        Good(OnDay, StrCell(<<>>)),
        Good(OnDay, FloatCell(0)),
        Good(OnDay, StrCell(<<"a", "b", "c">>)),
        Good(OnDay, TimedeltaCell(3600)),
        SubSeq(Good(OnDay, FloatCell(1)), 1, 8),
        <<NoneCell, OnDay, NoneCell, NoneCell, NoneCell, FloatCell(1),
          StrCell(PM), StrCell(SD), NoneCell>>,
        Row("Sick", OnDay, FloatCell(1), PM, SD),
        Row("a", OnDay, FloatCell(1), <<"X", "X">>, SD)}

\* the tables of a header row and at most n data rows
RECURSIVE Tables(_)
Tables(n) ==
    IF n = 0 THEN {<<<<>>>>}
    ELSE Tables(n - 1)
         \cup {Append(t, r) : t \in {k \in Tables(n - 1) : Len(k) = n}, r \in TableRows}

InitHttp ==
    /\ pc = "request"
    /\ table \in Tables(MaxEntries)
    /\ files \in {TemplateOnly, [f \in {} |-> 0]}
    /\ runs = <<>>
    /\ exception = ""
    /\ response = NoResponse
    /\ all_entries = <<>>
    /\ filtered_entries = <<>>
    /\ excluded_count = 0
    /\ errors = <<>>
    /\ aggregated = EmptyDict
    /\ grouped = EmptyDict
    /\ wb = <<>>
    /\ output = <<>>
    /\ project_id = <<>>
    /\ invoice_date \in InvoiceDates
    /\ hours_dict = EmptyDict
    /\ rows_to_delete = <<>>
    /\ ws = <<>>

\* _process_in_thread: tempfile.NamedTemporaryFile(suffix=".numbers",
\* delete=False), which creates the file, empty
CreateTemp ==
    /\ pc = "request"
    /\ files' = [f \in DOMAIN files \cup {tmp_path} |->
                    IF f = tmp_path THEN <<>> ELSE files[f]]
    /\ pc' = "temp"
    /\ UNCHANGED <<table, runs, exception, response, sheetVars, aggVars>>

\* _process_in_thread: tmp.write, tmp.flush, tmp.close, any of which can fail
\* with OSError
WriteTemp ==
    /\ pc = "temp"
    /\ \/ /\ files' = [files EXCEPT ![tmp_path] = table]
          /\ pc' = "written"
          /\ UNCHANGED exception
       \/ /\ exception' = "OSError"
          /\ pc' = "failed"
          /\ UNCHANGED files
    /\ UNCHANGED <<table, runs, response, sheetVars, aggVars>>

\* _process_invoices: all_entries = read_timesheet_data(input_file)
ReadTimesheet ==
    /\ pc = "written"
    /\ IF tmp_path \notin DOMAIN files
       THEN /\ exception' = "FileNotFoundError"
            /\ pc' = "failed"
            /\ UNCHANGED <<all_entries, errors>>
       ELSE LET read == read_timesheet_data(files[tmp_path])
            IN IF read.exception = ""
               THEN /\ all_entries' = read.entries
                    /\ pc' = "read"
                    /\ UNCHANGED <<exception, errors>>
               ELSE /\ exception' = read.exception
                    /\ errors' = <<read.message>>
                    /\ pc' = "failed"
                    /\ UNCHANGED all_entries
    /\ UNCHANGED <<filtered_entries, excluded_count, aggregated, grouped, wb, output,
                   table, files, runs, response, sheetVars>>

\* the finally clause that leaves the temporary file in place
KeepTemp ==
    /\ pc \in {"saved", "failed"}
    /\ pc' = IF pc = "saved" THEN "returned" ELSE "raised"
    /\ UNCHANGED <<files, table, runs, exception, response, sheetVars, aggVars>>

\* _process_in_thread: the finally clause, tmp_path.unlink(missing_ok=True),
\* after the return value was computed or an exception was raised
UnlinkTemp ==
    /\ pc \in {"saved", "failed"}
    /\ files' = [f \in DOMAIN files \ {tmp_path} |-> files[f]]
    /\ pc' = IF pc = "saved" THEN "returned" ELSE "raised"
    /\ UNCHANGED <<table, runs, exception, response, sheetVars, aggVars>>

\* generate_invoices_endpoint: the response for what _process_in_thread
\* returned or raised; details are the lines of the message that are not
\* blank
Respond ==
    /\ pc \in {"returned", "raised"}
    /\ response' =
           IF pc = "returned"
           THEN [status_code |-> 200, code |-> "", details |-> <<>>]
           ELSE IF exception = "ValueError"
           THEN [status_code |-> 422, code |-> "VALIDATION_ERROR",
                 details |-> SelectSeq(errors, LAMBDA line : line # "")]
           ELSE IF exception = "FileNotFoundError"
           THEN [status_code |-> 500, code |-> "INTERNAL_ERROR",
                 details |-> <<"Template file not found: " \o TEMPLATE_PATH>>]
           ELSE [status_code |-> 500, code |-> "INTERNAL_ERROR", details |-> <<>>]
    /\ pc' = "responded"
    /\ UNCHANGED <<table, files, runs, exception, sheetVars, aggVars>>

NextHttp ==
    \/ CreateTemp
    \/ WriteTemp
    \/ ReadTimesheet
    \/ FilterEntries
    \/ ValidateEntries
    \/ AggregateAndGroup
    \/ CreateInvoiceWorkbook
    \/ SaveWorkbook
    \/ UnlinkTemp
    \/ Respond

SpecHttp == InitHttp /\ [][NextHttp]_vars

-----------------------------------------------------------------------------
(* Properties of the section pruner (Spec).                                *)

\* the hours of a slice summed over one phase code
SummedHours(h, p) == SumOver(h, {j \in DOMAIN h : j[2] = p})

\* the template copy as populate_invoice_sheet leaves it, before any deletion
Populated ==
    populate_invoice_sheet(Template, parse_project_id(project_id).name,
                           parse_project_id(project_id).number, hours_dict, invoice_date)

\* the rows of a sheet whose indices are not in S, in their order
KeepRows(sheet, S) ==
    LET Kept(r) == r \notin S
        idx == SelectSeq(RowNumbers(sheet), Kept)
    IN [i \in 1..Len(idx) |-> sheet[idx[i]]]

\* the row that held index r of the populated template P is still somewhere in
\* the sheet
Survives(P, r) == \E i \in DOMAIN ws : ws[i] = P[r]

\* the rows of the phase sections of the populated template are pairwise
\* distinct, so Survives identifies a row
SectionRows == TEMPLATE_PHASES["PD"].header .. TEMPLATE_PHASES["M"].subtotal

Marked == Range(rows_to_delete)

\* the template rows of the section of phase p: header, task rows, subtotal
SectionOf(p) == TEMPLATE_PHASES[p].header .. TEMPLATE_PHASES[p].subtotal

\* C1: after calculate_rows_to_delete and delete_rows_from_sheet, a phase whose
\* summed hours are zero has lost its header row, all its task rows and its
\* subtotal row; a phase whose summed hours are nonzero keeps its header row
\* and its subtotal row.
C1_ZeroPhaseRemoved ==
    pc = "deleted" =>
      LET P == Populated IN
        /\ \A a \in SectionRows : \A b \in (a + 1)..TEMPLATE_PHASES["M"].subtotal : P[a] # P[b]
        /\ \A p \in BILLABLE_PHASE_CODES :
            IF SummedHours(hours_dict, p) = 0
            THEN \A r \in SectionOf(p) : ~Survives(P, r)
            ELSE /\ Survives(P, TEMPLATE_PHASES[p].header)
                 /\ Survives(P, TEMPLATE_PHASES[p].subtotal)
                 /\ TEMPLATE_PHASES[p].header \notin Marked
                 /\ TEMPLATE_PHASES[p].subtotal \notin Marked

C1_Witness ==
    /\ pc = "deleted"
    /\ \E p \in BILLABLE_PHASE_CODES : SummedHours(hours_dict, p) = 0
    /\ \E p \in BILLABLE_PHASE_CODES : SummedHours(hours_dict, p) # 0
    /\ Len(ws) < Len(Template)

\* C2: in a phase other than M with nonzero summed hours a task row is marked
\* exactly when the slice has no hours for that exact (task, phase) key; in
\* phase M with nonzero total nothing is marked.  The slice holding only
\* (PM, SD) leaves, of all phase sections, the SD header, the SD Project
\* Management row and the SD subtotal.
C2_TaskRowMarkedIffNoHours ==
    pc = "calculated" =>
        /\ \A p \in BILLABLE_PHASE_CODES \ {"M"} :
            SummedHours(hours_dict, p) # 0 =>
                \A i \in DOMAIN TASK_ORDER_STANDARD :
                    (TEMPLATE_PHASES[p].tasks[i] \in Marked)
                        <=> (Get(hours_dict, <<TASK_ORDER_STANDARD[i], p>>) = 0)
        /\ SummedHours(hours_dict, "M") # 0 =>
                SectionOf("M") \cap Marked = {}
        /\ DOMAIN hours_dict = {<<"PM", "SD">>} =>
                SectionRows \ Marked = {TEMPLATE_PHASES["SD"].header,
                                        TEMPLATE_PHASES["SD"].tasks[2],
                                        TEMPLATE_PHASES["SD"].subtotal}

C2_Witness ==
    /\ pc = "calculated"
    /\ \E p \in BILLABLE_PHASE_CODES \ {"M"} :
        /\ SummedHours(hours_dict, p) # 0
        /\ \E i, j \in DOMAIN TASK_ORDER_STANDARD :
            /\ TEMPLATE_PHASES[p].tasks[i] \in Marked
            /\ TEMPLATE_PHASES[p].tasks[j] \notin Marked
    /\ SummedHours(hours_dict, "M") # 0

StrictlyDescending(s) == \A i \in 1..(Len(s) - 1) : s[i] > s[i + 1]

\* C3: the indices are strictly descending (none repeated), and deleting them
\* one at a time in that order removes exactly the rows that held those
\* indices in the populated template: what remains is the other rows, with
\* their content and in their order.
C3_DescendingDeletionExact ==
    /\ pc = "calculated" => StrictlyDescending(rows_to_delete)
    /\ pc = "deleted" => ws = KeepRows(Populated, Marked)

C3_Witness ==
    /\ pc = "deleted"
    /\ Len(rows_to_delete) >= 2
    /\ Survives(Populated, TEMPLATE_PHASES["SD"].subtotal)
    /\ TEMPLATE_PHASES["PD"].header \in Marked

-----------------------------------------------------------------------------
(* Properties of the formula rebuilder (Spec).  The current position of a  *)
(* template row is derived from the template geometry and the marked rows, *)
(* not from the labels rebuild_formulas reads.                             *)

\* current row of the surviving template row r (r >= 2) once the marked rows
\* are gone and the spacer row is in
Pos(r) == r - Cardinality({d \in Marked : d < r}) + 1

\* the template task rows of phase p that survive pruning
SurvivingTasks(p) == Range(TEMPLATE_PHASES[p].tasks) \ Marked

\* the phases with at least one surviving task row
PhasesWithTasks == {p \in BILLABLE_PHASE_CODES : SurvivingTasks(p) # {}}

\* the phases whose header survives without any task row
HeaderOnlyPhases ==
    {p \in BILLABLE_PHASE_CODES :
        TEMPLATE_PHASES[p].header \notin Marked /\ SurvivingTasks(p) = {}}

\* an ascending list of the elements of a set of row numbers
Ascending(S) ==
    [i \in 1..Cardinality(S) |-> CHOOSE x \in S : Cardinality({y \in S : y < x}) = i - 1]

\* "=SUM(<col><r1>,<col><r2>,...)" over a list of rows
RECURSIVE ExpectedRefs(_, _)
ExpectedRefs(col, rows) ==
    IF rows = <<>> THEN ""
    ELSE IF Len(rows) = 1 THEN col \o ToString(rows[1])
    ELSE ExpectedRefs(col, SubSeq(rows, 1, Len(rows) \div 2)) \o ","
         \o ExpectedRefs(col, SubSeq(rows, Len(rows) \div 2 + 1, Len(rows)))

ExpectedListSum(col, rows) == Str("=SUM(" \o ExpectedRefs(col, rows) \o ")")

ExpectedCost(r) == Str("=C" \o ToString(r) \o "*D" \o ToString(r))

ExpectedRangeSum(first, last) ==
    Str("=SUM(E" \o ToString(first) \o ":E" \o ToString(last) \o ")")

CurrentTaskRows == {Pos(r) : r \in UNION {SurvivingTasks(p) : p \in BILLABLE_PHASE_CODES}}

CurrentSubtotalRows == {Pos(TEMPLATE_PHASES[p].subtotal) : p \in PhasesWithTasks}

\* C4: after rebuild_formulas every surviving task row holds the cost formula
\* of its own current row, and every phase with a surviving task row holds in
\* its subtotal row the SUM over the span from its first to its last task row,
\* a span made of task rows of that phase only.
C4_CostAndPhaseSubtotalFormulas ==
    pc = "rebuilt" =>
        \A p \in BILLABLE_PHASE_CODES :
            LET T == {Pos(r) : r \in SurvivingTasks(p)}
                first == CHOOSE x \in T : \A y \in T : x <= y
                last == CHOOSE x \in T : \A y \in T : x >= y
            IN /\ \A r \in SurvivingTasks(p) :
                    /\ ws[Pos(r)][2] = Template[r][2]
                    /\ ws[Pos(r)][cost_col] = ExpectedCost(Pos(r))
               /\ T # {} =>
                    /\ ws[Pos(TEMPLATE_PHASES[p].subtotal)][2] = Empty
                    /\ ws[Pos(TEMPLATE_PHASES[p].subtotal)][total_col]
                            = ExpectedRangeSum(first, last)
                    /\ \A k \in first..last : k \in T

C4_Witness ==
    /\ pc = "rebuilt"
    /\ \E p \in PhasesWithTasks :
        /\ Cardinality(SurvivingTasks(p)) >= 2
        /\ \E r \in SurvivingTasks(p) : Pos(r) # r

ReimbursableBlockExists == \E r \in DOMAIN ws : ws[r][2] = Str("Reimbursable")

C7_RebuildIdempotent == [][pc = "rebuilt" => ws' = ws]_vars

C7_Witness ==
    /\ pc = "rebuilt_again"
    /\ ws # apply_style_fixes(KeepRows(Populated, Marked))

\* C8: rebuild_formulas writes no reference to a phase whose header has no
\* task row under it (its subtotal cell is left alone and the overall sums list
\* only the phases with task rows), and with no task row anywhere it writes
\* neither overall SUM nor any phase subtotal SUM.
C8_NothingWrittenForEmptyPhases ==
    [][pc = "styled" =>
        LET O == Pos(overall_subtotal_row) IN
        /\ \A p \in HeaderOnlyPhases :
            /\ ws'[Pos(TEMPLATE_PHASES[p].subtotal)] = ws[Pos(TEMPLATE_PHASES[p].subtotal)]
            /\ CurrentTaskRows # {} =>
                /\ ws'[O][units_col] = ExpectedListSum("C", Ascending(CurrentTaskRows))
                /\ ws'[O][total_col] = ExpectedListSum("F", Ascending(CurrentSubtotalRows))
        /\ CurrentTaskRows = {} =>
            \A r \in 1..Pos(overall_subtotal_row) : ws'[r] = ws[r]
    ]_vars

C8_Witness ==
    /\ pc = "rebuilt"
    /\ HeaderOnlyPhases # {}
    /\ CurrentTaskRows = {}

-----------------------------------------------------------------------------
(* Properties of aggregation and grouping (SpecAgg).                       *)

\* the elements of a finite set, listed in some order
RECURSIVE Listed(_)
Listed(S) ==
    IF S = {} THEN <<>>
    ELSE LET x == CHOOSE y \in S : TRUE IN <<x>> \o Listed(S \ {x})

\* the sum of the hours of a list of entries
RECURSIVE SumHours(_)
SumHours(list) == IF list = <<>> THEN 0 ELSE Head(list).hours + SumHours(Tail(list))

\* how many times entry e occurs in a list
Count(list, e) == Cardinality({i \in DOMAIN list : list[i] = e})

\* the entries of a list that belong to project p
OfProject(list, p) ==
    LET Mine(e) == e.project_id = p
    IN SelectSeq(list, Mine)

\* the entries of a list that carry both a task and a phase code
WithBothCodes(list) ==
    LET Coded(e) == e.task # "" /\ e.phase # ""
    IN SelectSeq(list, Coded)

\* the sum of a project's HourMatrix slice; no slice counts as zero
SliceSum(p) == IF p \in DOMAIN aggregated THEN SumValues(aggregated[p]) ELSE 0

\* C9 as stated: for every project the hours of the entries on its detail
\* sheet sum to the sum of its HourMatrix slice.
C9_DetailSumEqualsSliceSum ==
    pc = "aggregated" =>
        \A p \in DOMAIN aggregated : SumHours(grouped[p]) = SliceSum(p)

\* C9 as amended: for every project the hours of those entries on its detail
\* sheet that carry both a task and a phase code sum to the sum of its
\* HourMatrix slice, and every project with a slice has a detail list.
C9_CodedDetailSumEqualsSliceSum ==
    pc = "aggregated" =>
        /\ \A p \in DOMAIN grouped : SumHours(WithBothCodes(grouped[p])) = SliceSum(p)
        /\ DOMAIN aggregated \subseteq DOMAIN grouped

C9_Witness ==
    /\ pc = "aggregated"
    /\ \E p \in DOMAIN aggregated :
        /\ SliceSum(p) >= 1
        /\ SumHours(grouped[p]) > SliceSum(p)

\* C10: group_by_project partitions its input: every entry is, as often as it
\* occurs in the input, in the list of its own project and in no other list,
\* no list is empty, and the number of entries and each project's sum of hours
\* are unchanged.
C10_GroupIsPartition ==
    pc = "aggregated" =>
        /\ \A p \in DOMAIN grouped :
            /\ grouped[p] # <<>>
            /\ \A i \in DOMAIN grouped[p] : grouped[p][i].project_id = p
            /\ SumHours(grouped[p]) = SumHours(OfProject(filtered_entries, p))
            /\ \A i \in DOMAIN grouped[p] :
                Count(grouped[p], grouped[p][i]) = Count(filtered_entries, grouped[p][i])
        /\ \A i \in DOMAIN filtered_entries :
            /\ filtered_entries[i].project_id \in DOMAIN grouped
            /\ Count(grouped[filtered_entries[i].project_id], filtered_entries[i])
                    = Count(filtered_entries, filtered_entries[i])
        /\ SumSeq([i \in 1..Len(Listed(DOMAIN grouped)) |->
                        Len(grouped[Listed(DOMAIN grouped)[i]])])
                = Len(filtered_entries)

C10_Witness ==
    /\ pc = "aggregated"
    /\ Cardinality(DOMAIN grouped) >= 2

-----------------------------------------------------------------------------
(* Properties of the entry pipeline (SpecPipe).                            *)

\* the entries of a list for project p that carry task t and phase ph
OfKey(list, p, t, ph) ==
    LET Mine(e) == e.project_id = p /\ e.task = t /\ e.phase = ph
    IN SelectSeq(list, Mine)

\* the (task, phase) pairs, both codes non-empty, of the entries of project p
CodedKeys(list, p) ==
    {<<list[i].task, list[i].phase>> :
        i \in {j \in DOMAIN list : /\ list[j].project_id = p
                                   /\ list[j].task # ""
                                   /\ list[j].phase # ""}}

\* the projects of a list that have an entry with both codes
CodedProjects(list) ==
    {list[i].project_id : i \in {j \in DOMAIN list : list[j].task # "" /\ list[j].phase # ""}}

\* matrix is the exact aggregation of list
ExactAggregation(matrix, list) ==
    /\ DOMAIN matrix = CodedProjects(list)
    /\ \A p \in DOMAIN matrix :
        /\ DOMAIN matrix[p] = CodedKeys(list, p)
        /\ \A k \in DOMAIN matrix[p] : matrix[p][k] = SumHours(OfKey(list, p, k[1], k[2]))

\* C11: aggregate_hours returns, for the entries as read and for the entries
\* that passed the filters and the validators alike, the matrix whose value
\* under project p and key (t, ph) is the sum of the hours of exactly the
\* entries of p with task t and phase ph, both non-empty; it has a key only
\* where such an entry exists, so an entry missing a code changes nothing; two
\* (PM, SD) entries of 8 and 2 hours for A:1 give 10 under (PM, SD).
C11_AggregationIsExact ==
    /\ ExactAggregation(aggregate_hours(all_entries), all_entries)
    /\ pc \in {"aggregated", "created"} => ExactAggregation(aggregated, filtered_entries)
    /\ aggregate_hours(<<Entry(<<"A", ":", "1">>, 20, 8, <<"PM", "SD">>),
                         Entry(<<"A", ":", "1">>, 21, 2, <<"PM", "SD">>)>>)
            = [p \in {<<"A", ":", "1">>} |-> [k \in {<<"PM", "SD">>} |-> 10]]

C11_Witness ==
    /\ pc = "aggregated"
    /\ \E p \in DOMAIN aggregated : \E k \in DOMAIN aggregated[p] :
        /\ Len(OfKey(filtered_entries, p, k[1], k[2])) >= 2
        /\ aggregated[p][k] >= 2

\* the elements of list at the positions in S, in the order of the list
Selection(list, S) == [k \in 1..Cardinality(S) |-> list[Ascending(S)[k]]]

\* the positions of the entries with hours above zero
PositiveHours(list) == {i \in DOMAIN list : list[i].hours > 0}

\* C12: filter_zero_hours returns the entries with hours above zero, in their
\* input order, and none with hours of zero or below; in _process_invoices
\* the filtered entries are those of the non-project filter's result, every
\* value of the HourMatrix is above zero, and a phase total of a project is
\* zero exactly when the project's slice has no key of that phase.
C12_ZeroHoursDropped ==
    /\ filter_zero_hours(all_entries) = Selection(all_entries, PositiveHours(all_entries))
    /\ pc # "read" =>
        LET kept == filter_non_projects(all_entries).filtered
        IN /\ filtered_entries = Selection(kept, PositiveHours(kept))
           /\ \A i \in DOMAIN filtered_entries : filtered_entries[i].hours > 0
    /\ pc \in {"aggregated", "created"} =>
        \A p \in DOMAIN aggregated :
            /\ \A k \in DOMAIN aggregated[p] : aggregated[p][k] > 0
            /\ \A ph \in BILLABLE_PHASE_CODES :
                Get(calculate_phase_hours(aggregated[p]), ph) = 0
                    <=> ~\E k \in DOMAIN aggregated[p] : k[2] = ph

C12_Witness ==
    /\ pc = "aggregated"
    /\ \E i \in DOMAIN all_entries : all_entries[i].hours <= 0
    /\ \E i \in DOMAIN all_entries : i > 1 /\ all_entries[i].hours > 0
    /\ \E p \in DOMAIN aggregated : \E ph \in BILLABLE_PHASE_CODES :
        Get(calculate_phase_hours(aggregated[p]), ph) = 0

\* the entries of a list with date d (0: without a date)
WithDate(list, d) ==
    LET Mine(e) == e.date = d
    IN SelectSeq(list, Mine)

\* the entries of a list that sort as date d: those dated d and, for the
\* earliest possible date, those without a date
SortingAs(list, d) ==
    LET Mine(e) == e.date = d \/ (e.date = 0 /\ d = DATE_MIN)
    IN SelectSeq(list, Mine)

\* the dates of a list, 0 for the entries without one
DatesOf(list) == {list[i].date : i \in DOMAIN list}

MissingSeparatorMessage(pid) ==
    "Project ID missing colon separator: '" \o Text(pid) \o "'"

\* the messages for an entry's task code and for its phase code
InvalidTaskMessage(e) ==
    "Invalid Task code '" \o e.task \o "' for project '" \o Text(e.project_id)
    \o "' (valid: 3-D, D-D, DP, M, PM)"

InvalidPhaseMessage(e) ==
    "Invalid Phase code '" \o e.phase \o "' for project '" \o Text(e.project_id)
    \o "' (valid: CA, CD, DD, M, PD, SD)"

\* the positions of the entries of a list with a task code, or a phase code,
\* that is neither empty nor billable
InvalidTasks(list) ==
    {i \in DOMAIN list : list[i].task # "" /\ list[i].task \notin BILLABLE_TASK_CODES}

InvalidPhases(list) ==
    {i \in DOMAIN list : list[i].phase # "" /\ list[i].phase \notin BILLABLE_PHASE_CODES}

\* the identifiers of a list that have no separator
MissingSeparator(list) ==
    {list[i].project_id : i \in {j \in DOMAIN list : ":" \notin Range(list[j].project_id)}}

NoBillableMessage == "No billable projects found in input file"

\* the pipeline stopped on a validation failure
ValidationFailed == pc = "failed" /\ errors # <<NoBillableMessage>>

\* C14: when _process_invoices fails validation, the messages of the failure
\* name every identifier without separator and every invalid task and phase
\* code of the filtered entries.
C14_EveryProblemReported ==
    ValidationFailed =>
        /\ \A pid \in MissingSeparator(filtered_entries) :
            MissingSeparatorMessage(pid) \in Range(errors)
        /\ \A i \in InvalidTasks(filtered_entries) :
            InvalidTaskMessage(filtered_entries[i]) \in Range(errors)
        /\ \A i \in InvalidPhases(filtered_entries) :
            InvalidPhaseMessage(filtered_entries[i]) \in Range(errors)

\* the positions at which an identifier without separator occurs first
FirstMissingSeparator(list) ==
    {i \in DOMAIN list :
        /\ ":" \notin Range(list[i].project_id)
        /\ \A j \in 1..(i - 1) : list[j].project_id # list[i].project_id}

\* one message for each distinct identifier without separator, in the order
\* of first occurrence
MissingSeparatorMessages(list) ==
    [k \in 1..Cardinality(FirstMissingSeparator(list)) |->
        MissingSeparatorMessage(list[Ascending(FirstMissingSeparator(list))[k]].project_id)]

\* C15: validate_project_ids returns one message for each distinct identifier
\* without ':' (the empty one included), in the order of first occurrence,
\* and none for an identifier with ':'; _process_invoices fails at this step,
\* with exactly these messages, if and only if there is one; for the single
\* identifier NoColon there is exactly one message, naming NoColon.
C15_OneMessagePerDistinctId ==
    /\ validate_project_ids(all_entries) = MissingSeparatorMessages(all_entries)
    /\ Len(validate_project_ids(all_entries)) = Cardinality(MissingSeparator(all_entries))
    /\ pc \notin {"read", "filtered"} =>
        (MissingSeparator(filtered_entries) # {}
            <=> pc = "failed" /\ errors = MissingSeparatorMessages(filtered_entries))
    /\ validate_project_ids(<<Dated(<<"N", "o", "C", "o", "l", "o", "n">>, 20)>>)
            = <<"Project ID missing colon separator: 'NoColon'">>

C15_Witness ==
    /\ pc = "failed"
    /\ Len(errors) = 1
    /\ \E i, j \in DOMAIN filtered_entries :
        /\ i < j
        /\ filtered_entries[i].project_id = filtered_entries[j].project_id
        /\ filtered_entries[i].project_id \in MissingSeparator(filtered_entries)

\* the number of code violations of the entries of a list before position i
ViolationsBefore(list, i) ==
    Cardinality(InvalidTasks(list) \cap 1..(i - 1))
    + Cardinality(InvalidPhases(list) \cap 1..(i - 1))

\* msgs holds one message per code violation of list and nothing else: the
\* entries in input order, an entry's task message before its phase message
CodeMessagesOf(msgs, list) ==
    /\ Len(msgs) = Cardinality(InvalidTasks(list)) + Cardinality(InvalidPhases(list))
    /\ \A i \in InvalidTasks(list) :
        msgs[ViolationsBefore(list, i) + 1] = InvalidTaskMessage(list[i])
    /\ \A i \in InvalidPhases(list) :
        msgs[ViolationsBefore(list, i) + (IF i \in InvalidTasks(list) THEN 2 ELSE 1)]
            = InvalidPhaseMessage(list[i])

\* C16: validate_codes returns one message for each entry whose task code is
\* neither empty nor billable and one for each entry whose phase code is
\* neither empty nor billable (two for an entry with both), none for an empty
\* code, over the whole list; when every identifier has its separator,
\* _process_invoices fails at this step, with the whole list of messages, if
\* and only if there is a violation.
C16_OneMessagePerViolation ==
    /\ CodeMessagesOf(validate_codes(all_entries), all_entries)
    /\ pc \notin {"read", "filtered"} /\ MissingSeparator(filtered_entries) = {} =>
        (InvalidTasks(filtered_entries) \cup InvalidPhases(filtered_entries) # {}
            <=> pc = "failed" /\ errors # <<NoBillableMessage>>
                              /\ CodeMessagesOf(errors, filtered_entries))

C16_Witness ==
    /\ pc = "failed"
    /\ Len(errors) = 3
    /\ Len(filtered_entries) = 2
    /\ InvalidPhases(filtered_entries) # {}

\* the positions of the entries of the input that one of the two filters
\* removes
Removed(list) == {i \in DOMAIN list : IsNonProjectEntry(list[i]) \/ list[i].hours <= 0}

\* the messages the filtered entries can be blamed for
MessagesOfFiltered ==
    {MissingSeparatorMessage(pid) : pid \in MissingSeparator(filtered_entries)}
    \cup {InvalidTaskMessage(filtered_entries[i]) : i \in InvalidTasks(filtered_entries)}
    \cup {InvalidPhaseMessage(filtered_entries[i]) : i \in InvalidPhases(filtered_entries)}

\* C17: when no entry is left after the non-project and the zero-hour filter,
\* _process_invoices fails with the one message 'No billable projects found
\* in input file', and neither a workbook nor an output exists; a workbook
\* and an output exist only after a run with an entry left; every validation
\* message names an identifier or a code of an entry that is left, never one
\* of a removed entry.
C17_NoBillableProjects ==
    /\ pc \notin {"read", "filtered"} /\ filtered_entries = <<>> =>
        /\ pc = "failed"
        /\ errors = <<NoBillableMessage>>
    /\ pc = "failed" => wb = <<>> /\ output = <<>> /\ errors # <<>>
    /\ wb # <<>> \/ output # <<>> => filtered_entries # <<>> /\ errors = <<>>
    /\ pc # "read" => Len(filtered_entries) = Len(all_entries) - Cardinality(Removed(all_entries))
    /\ ValidationFailed => Range(errors) \subseteq MessagesOfFiltered

C17_Witness ==
    /\ pc = "failed"
    /\ errors = <<NoBillableMessage>>
    /\ Len(all_entries) = 2
    /\ \E i \in DOMAIN all_entries : IsNonProjectEntry(all_entries[i])
    /\ InvalidTasks(all_entries) # {}
    /\ MissingSeparator(all_entries) # {}

\* the project name of an identifier as written: the characters in front of
\* its first ':', all of them when it has none
NameAsWritten(pid) ==
    LET n == CHOOSE k \in 0..Len(pid) :
                /\ \A j \in 1..k : pid[j] # ":"
                /\ k < Len(pid) => pid[k + 1] = ":"
    IN SubSeq(pid, 1, n)

\* the positions of the entries whose project name is none of the non-billable
\* names, whatever the case of its letters
Billable(list) ==
    {i \in DOMAIN list : Lower(NameAsWritten(list[i].project_id)) \notin NON_PROJECT_NAMES}

-----------------------------------------------------------------------------
(* Properties of the workbook (SpecName, SpecPipe).                        *)

\* the characters a sheet name cannot hold
IllegalInSheetName == {":", "\\", "/", "?", "*", "[", "]"}

\* title is at most 31 characters long, ends with suffix and holds no illegal
\* character
ValidSheetName(title, suffix) ==
    /\ Len(title) <= 31
    /\ Len(title) >= Len(suffix)
    /\ SubSeq(title, Len(title) - Len(suffix) + 1, Len(title)) = suffix
    /\ \A i \in DOMAIN title : title[i] \notin IllegalInSheetName

\* C19: for every identifier, make_sheet_name with the suffix ' A' of the
\* invoice sheet and with the suffix ' B' of the detail sheet returns a name
\* of at most 31 characters that ends with the suffix and holds none of the
\* characters : \ / ? * [ ].
C19_SheetNamesValid ==
    /\ ValidSheetName(make_sheet_name(project_id, <<" ", "A">>), <<" ", "A">>)
    /\ ValidSheetName(make_sheet_name(project_id, <<" ", "B">>), <<" ", "B">>)
    /\ pc = "named" =>
        /\ Len(wb) = 2
        /\ ValidSheetName(wb[1].title, <<" ", "A">>)
        /\ ValidSheetName(wb[2].title, <<" ", "B">>)

C19_Witness ==
    /\ pc = "named"
    /\ Len(project_id) > 31
    /\ \E i \in DOMAIN project_id : project_id[i] \in IllegalInSheetName
    /\ Len(wb[1].title) < 31
    /\ Len(wb[2].title) < 31

\* a sorts in front of b, character by character
RECURSIVE SortsBefore(_, _)
SortsBefore(a, b) ==
    IF b = <<>> THEN FALSE
    ELSE IF a = <<>> THEN TRUE
    ELSE IF Head(a) = Head(b) THEN SortsBefore(Tail(a), Tail(b))
    ELSE Ord(Head(a)) < Ord(Head(b))

\* the project name of an identifier, its blanks at either end removed
TrimmedName(pid) == Strip(NameAsWritten(pid))

\* the workbook holds, for each aggregated project once, its invoice sheet
\* directly followed by its detail sheet, and no other sheet
SheetsInPairs ==
    /\ Len(wb) = 2 * Cardinality(DOMAIN aggregated)
    /\ \A k \in 1..Cardinality(DOMAIN aggregated) :
        /\ wb[2 * k - 1].kind = "invoice"
        /\ wb[2 * k].kind = "detail"
        /\ wb[2 * k - 1].project_id = wb[2 * k].project_id
        /\ wb[2 * k].project_id \in DOMAIN aggregated
        /\ \A l \in 1..(k - 1) : wb[2 * l].project_id # wb[2 * k].project_id
    /\ \A i \in DOMAIN wb : wb[i].kind # "template" /\ wb[i].title # TEMPLATE_NAME

\* C20 as stated: the sheets of the workbook are in alphabetical order of
\* project name, the identifier's part in front of the first ':' compared
\* without regard to case; each project's invoice sheet is directly followed
\* by its detail sheet; the template sheet is not among them.
C20_SheetsByNameAsWritten ==
    pc \in {"created", "saved"} =>
        /\ SheetsInPairs
        /\ \A i, j \in DOMAIN wb :
            i < j => ~SortsBefore(Lower(NameAsWritten(wb[j].project_id)),
                                  Lower(NameAsWritten(wb[i].project_id)))

\* C20 as amended: the sheets of the workbook are in alphabetical order of
\* project name, the identifier's part in front of the first ':' with the
\* blanks at its ends removed, compared without regard to case, whatever the
\* order of aggregation; each project's invoice sheet is directly followed by
\* its detail sheet; the template sheet is not among them.
C20_SheetsByTrimmedName ==
    pc \in {"created", "saved"} =>
        /\ SheetsInPairs
        /\ \A i, j \in DOMAIN wb :
            i < j => ~SortsBefore(Lower(TrimmedName(wb[j].project_id)),
                                  Lower(TrimmedName(wb[i].project_id)))

C20_Witness ==
    /\ pc = "created"
    /\ Len(wb) = 4
    /\ AggregatedKeys(filtered_entries) = <<wb[3].project_id, wb[1].project_id>>

\* the distinct identifiers of a list of entries
ProjectsOf(list) == {list[i].project_id : i \in DOMAIN list}

\* the positions of the sheets of one kind made for project p
SheetsOf(kind, p) == {i \in DOMAIN wb : wb[i].kind = kind /\ wb[i].project_id = p}

\* C21: when _process_invoices has completed, the workbook holds exactly one
\* invoice sheet and exactly one detail sheet for every distinct identifier of
\* the filtered entries, and project_count is the number of these identifiers.
C21_SheetsForEveryFilteredProject ==
    pc \in {"created", "saved"} =>
        /\ \A p \in ProjectsOf(filtered_entries) :
            /\ Cardinality(SheetsOf("invoice", p)) = 1
            /\ Cardinality(SheetsOf("detail", p)) = 1
        /\ InvoiceResult.project_count = Cardinality(ProjectsOf(filtered_entries))

\* the year and month a run's output file is named after: those of the first
\* entry that has a date, those of the current date when no entry has one
PeriodOf(r) ==
    LET entries == runs[r].entries
    IN IF \A i \in DOMAIN entries : entries[i].date = NoDate THEN runs[r].today
       ELSE LET i == CHOOSE k \in DOMAIN entries :
                        /\ entries[k].date # NoDate
                        /\ \A j \in 1..(k - 1) : entries[j].date = NoDate
            IN entries[i].date

\* the output file of run r's period with the given letter
OutputName(r, letter) ==
    "invoices_" \o ToString(PeriodOf(r).year) \o "_"
        \o (IF PeriodOf(r).month < 10 THEN "0" ELSE "") \o ToString(PeriodOf(r).month)
        \o "_" \o letter \o ".xlsx"

Letters == {LOWER_LETTERS[i] : i \in DOMAIN LOWER_LETTERS}

\* the name chosen by run r is the one of its period with the first letter
\* that no existing file has, and no file of that name exists
ChoseFirstUnused(r) ==
    /\ runs[r].output_file \notin DOMAIN files
    /\ \E c \in DOMAIN LOWER_LETTERS :
        /\ runs[r].output_file = OutputName(r, LOWER_LETTERS[c])
        /\ \A b \in 1..(c - 1) : OutputName(r, LOWER_LETTERS[b]) \in DOMAIN files

\* no step replaces or removes a file that exists
NoFileOverwritten ==
    \A f \in DOMAIN files : f \in DOMAIN files' /\ files'[f] = files[f]

\* C22: generate_output_filename returns invoices_YYYY_MM_<c>.xlsx with the
\* year and month of the first dated entry (of the current date when there
\* is none) and <c> the first letter of a..z whose file does not exist; it
\* never returns the path of an existing file, and it fails exactly when the
\* files of all 26 letters exist.  Hence runs of generate_invoices that
\* follow one another write distinct files and overwrite no earlier file.
C22_FirstUnusedLetter ==
    /\ [](\A r \in Runs :
            /\ runs[r].pc = "named" => ChoseFirstUnused(r)
            /\ runs[r].pc = "failed" =>
                   \A c \in Letters : OutputName(r, c) \in DOMAIN files
            /\ runs[r].pc = "saved" =>
                   /\ runs[r].output_file \in {OutputName(r, c) : c \in Letters}
                   /\ files[runs[r].output_file] = r
                   /\ \A q \in Runs \ {r} :
                          runs[q].pc = "saved" => runs[q].output_file # runs[r].output_file)
    /\ [][NoFileOverwritten]_vars

\* both runs are of one period in which files exist, and both have saved
C22_Witness ==
    /\ \A r \in Runs : runs[r].pc = "saved"
    /\ PeriodOf(1) = PeriodOf(2)
    /\ OutputName(1, "a") \in DOMAIN files
    /\ files[OutputName(1, "a")] = 0

\* C26: two invocations that overlap in time do not interfere; in particular
\* two overlapping runs of generate_invoices never select and write the same
\* output path, and each run's file keeps what that run wrote.
C26_OverlappingRunsDistinctPaths ==
    \A r \in Runs :
        runs[r].pc \in {"named", "saved"} =>
            /\ \A q \in Runs \ {r} :
                   runs[q].pc \in {"named", "saved"} =>
                       runs[q].output_file # runs[r].output_file
            /\ runs[r].pc = "saved" => files[runs[r].output_file] = r

\* the data rows of the table that have all nine columns
FullRows == SelectSeq(Tail(table), LAMBDA row : Len(row) >= 9)

\* the cell holds no number: it is empty, or a text that is not a number, or
\* of a type that is not a number
NonNumeric(c) ==
    \/ c.type \in {"NoneType", "datetime", "timedelta"}
    \/ c.type = "str" /\ ~IsDigits(Strip(c.chars))

\* a text of the form MM/DD/YYYY
InDateForm(chars) ==
    /\ Len(chars) = 10
    /\ chars[3] = "/" /\ chars[6] = "/"
    /\ \A i \in {1, 2, 4, 5, 7, 8, 9, 10} : chars[i] \in Range(DIGITS)

\* C23: read_timesheet_data never fails because of the content of a data row:
\* a row with fewer than nine columns yields no entry, every other row yields
\* exactly one entry, whose hours are 0 when the hours cell is empty or holds
\* no number and whose date is None when the date cell is a text that is not
\* of the form MM/DD/YYYY.
C23_NoRowFailsTheRead ==
    [][pc = "written" /\ pc' # "written" /\ Len(table) >= 2 =>
          /\ pc' = "read"
          /\ Len(all_entries') = Len(FullRows)
          /\ \A k \in DOMAIN FullRows :
              /\ NonNumeric(FullRows[k][6]) => all_entries'[k].hours = 0
              /\ (FullRows[k][2].type = "str" /\ ~InDateForm(FullRows[k][2].chars))
                     => all_entries'[k].date = 0]_vars

\* C24: when _process_in_thread has returned or raised, the temporary input
\* file it created no longer exists, whatever the exit path: a generated
\* workbook, a ValueError, a missing template, any other exception, a
\* failure while the uploaded bytes were written.
C24_TempFileRemoved ==
    pc \in {"returned", "raised", "responded"} => tmp_path \notin DOMAIN files

\* the function has raised on a failure to write the uploaded bytes
C24_Witness ==
    /\ pc = "raised"
    /\ exception = "OSError"
    /\ all_entries = <<>>

\* the engine rejected the input data: the table has no data row, or the
\* validators found identifiers or codes to report, or nothing billable is left
InputRejected ==
    /\ exception = "ValueError"
    /\ errors # <<>>
    /\ Range(errors) \subseteq
           MessagesOfFiltered \cup {NoBillableMessage, "Input file contains no data rows"}

\* C25: every failure of the engine yields a structured error and the two
\* classes are kept apart: a validation failure of the input data yields 422
\* VALIDATION_ERROR with one details item per message line, any unexpected
\* internal error yields 500 INTERNAL_ERROR; no internal error is reported as
\* a validation error and none becomes a success response.
C25_ErrorClassesKeptApart ==
    pc = "responded" =>
        /\ exception # "" => response.status_code # 200
        /\ InputRejected =>
               response = [status_code |-> 422, code |-> "VALIDATION_ERROR",
                           details |-> errors]
        /\ exception # "" /\ ~InputRejected =>
               /\ response.status_code = 500
               /\ response.code = "INTERNAL_ERROR"

-----------------------------------------------------------------------------
(* Properties of the finished sheet, read by its content (Spec).           *)

\* the rows of the sheet that hold the description of a phase, of a task
HeaderRowsNow == {r \in DOMAIN ws : \E p \in BILLABLE_PHASE_CODES :
                                        ws[r][2] = Str(PHASE_TO_DESCRIPTION[p])}
TaskRowsNow == {r \in DOMAIN ws : \E t \in BILLABLE_TASK_CODES :
                                      ws[r][2] = Str(TASK_TO_DESCRIPTION[t])}

\* the phase whose header is the nearest one above row r, "" when none is
PhaseAbove(r) ==
    LET above == {h \in HeaderRowsNow : h < r}
        nearest == CHOOSE h \in above : \A g \in above : g <= h
    IN IF above = {} THEN ""
       ELSE CHOOSE p \in BILLABLE_PHASE_CODES : ws[nearest][2] = Str(PHASE_TO_DESCRIPTION[p])

\* the task that the description of row r names
TaskNamed(r) == CHOOSE t \in BILLABLE_TASK_CODES : ws[r][2] = Str(TASK_TO_DESCRIPTION[t])

\* C27: after process_project_sheet every task row left in the sheet holds in
\* its units cell the hours of the (task, phase) named by its description and
\* by the phase header above it, the Meetings row the sum of all hours of
\* phase M; the four header fields are one row below their template rows.
C27_RowsCarryTheirOwnHours ==
    pc = "rebuilt" =>
        /\ \A r \in TaskRowsNow :
            /\ PhaseAbove(r) # ""
            /\ ws[r][units_col] =
                   IF PhaseAbove(r) = "M"
                   THEN Num(SummedHours(hours_dict, "M"))
                   ELSE Num(Get(hours_dict, <<TaskNamed(r), PhaseAbove(r)>>))
        /\ ws[project_name_row + 1][value_col] = Str(Text(parse_project_id(project_id).name))
        /\ ws[project_number_row + 1][value_col]
               = Str(Text(parse_project_id(project_id).number))
        /\ ws[invoice_date_row + 1][value_col] = Str(get_invoice_date(invoice_date))
        /\ ws[invoice_number_row + 1][value_col]
               = Str(Text(parse_project_id(project_id).number) \o " INV ##")

\* a sheet with the Meetings row filled from a task other than M, and with
\* task rows of another phase that moved up
C27_Witness ==
    /\ pc = "rebuilt"
    /\ \E k \in DOMAIN hours_dict : k[2] = "M" /\ k[1] # "M"
    /\ \E r \in TaskRowsNow : PhaseAbove(r) = "M"
    /\ \E r \in TaskRowsNow : PhaseAbove(r) \notin {"M", "PD"}

\* C28: for a slice that passes validate_codes, the units of the task rows
\* left on the invoice sheet add up to the sum of all values of the slice: no
\* hours of the matrix are missing from the invoice and none are counted twice.
C28_UnitsSumEqualsSliceSum ==
    pc = "rebuilt" =>
        SumOver([r \in TaskRowsNow |-> ws[r][units_col].n], TaskRowsNow)
            = SumValues(hours_dict)

\* the task rows under the header of row h
TasksUnder(h) ==
    {r \in TaskRowsNow : r > h /\ \A g \in HeaderRowsNow : g <= h \/ g > r}

\* C29: after process_project_sheet every phase section whose header is still
\* in the sheet has at least one task row, and the row after its last task row
\* holds the SUM that rebuild_formulas writes for the current rows; no
\* retained subtotal keeps a formula of the template.
C29_RetainedSectionsRebuilt ==
    pc = "rebuilt" =>
        \A h \in HeaderRowsNow :
            LET T == TasksUnder(h)
                first == CHOOSE x \in T : \A y \in T : x <= y
                last == CHOOSE x \in T : \A y \in T : x >= y
            IN /\ T # {}
               /\ ws[last + 1][total_col] = ExpectedRangeSum(first, last)

\* C30: within one run of create_invoice_workbook two distinct project
\* identifiers never yield the same sheet name with the same suffix: the
\* sheets of one kind made for different projects have different titles.
C30_DistinctProjectsDistinctNames ==
    pc \in {"created", "saved"} =>
        \A i, j \in DOMAIN wb :
            (wb[i].kind = wb[j].kind /\ wb[i].project_id # wb[j].project_id)
                => wb[i].title # wb[j].title

====
